---- MODULE Spec2Model ----
(***************************************************************************)
(* GPS Strava Art Maker: the SVG -> GPX sampling and placement pipeline of *)
(* SvgGpxManager, the three-snapshot editing state machine of MainWindow   *)
(* (original / working / final track), the map page that MainWindow polls  *)
(* for marker drags, and the pane splitter.                                *)
(*                                                                         *)
(* Python floats are idealised as exact rationals <<n, d>> (d > 0, lowest  *)
(* terms).  math.cos is a table of exact values with linear interpolation  *)
(* between the knots, and geopy's geodesic is the spherical distance along *)
(* a meridian or a parallel; the tracks of the model only have legs that   *)
(* run along a meridian or a parallel.  The sphere is a small one, 100 m   *)
(* to the degree instead of the Earth's 111 km: the transforms only use    *)
(* ratios of distances, and a track of the default 100 m then spans one    *)
(* degree, which keeps the exact arithmetic inside TLC's integers.         *)
(***************************************************************************)
EXTENDS Integers, Sequences, FiniteSets, TLC

VARIABLES
    mgr,                          \* SvgGpxManager fields (constructor arguments)
    job,                          \* one run of process_svg_file, stage by stage
    svg_paths,                    \* MainWindow.svg_paths
    gpx_data_1_original,          \* MainWindow.gpx_data_1_original
    gpx_data_2_scaled_translated, \* MainWindow.gpx_data_2_scaled_translated (working)
    gpx_data_3_final,             \* MainWindow.gpx_data_3_final
    rotation,                     \* MainWindow.rotation (degrees)
    hor_scale,                    \* MainWindow.hor_scale
    path_length_slider,           \* QSlider values
    rotation_slider,
    stretch_slider,
    status_label,                 \* what the status label shows: the outcome of the last load
    last,                         \* the handler that ran last: name, input, exception, state before
    edits,                        \* number of handlers run so far
    splitter,                     \* MainWindow.splitter, the PaneManager and its panes
    page,                         \* the map page: its JavaScript globals, the scripts and results in flight
    drags                         \* the offsets of the marker drags the user has completed

vars == <<mgr, job, svg_paths, gpx_data_1_original, gpx_data_2_scaled_translated,
          gpx_data_3_final, rotation, hor_scale, path_length_slider,
          rotation_slider, stretch_slider, status_label, last, edits,
          splitter, page, drags>>

\* what the track handlers leave out of account: the panes and the map page
Aside == <<splitter, page, drags>>

(* Python's None, in the shape of the value it stands in for, so that it can *)
(* be compared with one: None itself where a dict is expected, a track with  *)
(* one entry that is no point, a number with denominator 0, a path list with *)
(* one entry that is no segment.                                             *)
None == [none |-> TRUE]
NoGpx == <<None>>
NoFloat == <<0, 0>>
NoPaths == << <<None>> >>

-----------------------------------------------------------------------------
(* Exact rational arithmetic standing for float arithmetic.                *)

(* Every operator evaluates each of its arguments once: the arguments are   *)
(* bound as the elements of singleton sets before they are used.           *)

Abs(n) == IF n < 0 THEN -n ELSE n

RECURSIVE GCD(_, _)
GCD(a, b) == IF b = 0 THEN a ELSE CHOOSE g \in {GCD(y, x % y) : x \in {a}, y \in {b}} : TRUE

\* n / d in lowest terms with a positive denominator (d # 0); g is gcd(|n|, |d|)
Lowest(n, d, g) == <<((IF d < 0 THEN -1 ELSE 1) * n) \div g, Abs(d) \div g>>

R(n, d) ==
    CHOOSE r \in {Lowest(x, y, GCD(Abs(x), Abs(y))) : x \in {n}, y \in {d}} : TRUE

RInt(n) == <<n, 1>>
Zero == <<0, 1>>
One == <<1, 1>>

RNeg(a) == CHOOSE r \in {<<-x[1], x[2]>> : x \in {a}} : TRUE

\* g is the gcd of the two denominators
Sum(x, y, g) ==
    IF x[2] = 1 /\ y[2] = 1 THEN <<x[1] + y[1], 1>>
    ELSE R(x[1] * (y[2] \div g) + y[1] * (x[2] \div g), (x[2] \div g) * y[2])

RAdd(a, b) == CHOOSE r \in {Sum(x, y, GCD(x[2], y[2])) : x \in {a}, y \in {b}} : TRUE

RSub(a, b) == RAdd(a, RNeg(b))

\* g is gcd(|x[1]|, y[2]) and h is gcd(|y[1]|, x[2])
Product(x, y, g, h) ==
    IF x[1] = 0 \/ y[1] = 0 THEN Zero
    ELSE <<(x[1] \div g) * (y[1] \div h), (x[2] \div h) * (y[2] \div g)>>

RMul(a, b) ==
    CHOOSE r \in {Product(x, y, GCD(Abs(x[1]), y[2]), GCD(Abs(y[1]), x[2])) :
                    x \in {a}, y \in {b}} : TRUE

\* b # 0; Python raises ZeroDivisionError on a zero divisor, which callers test first
RDiv(a, b) ==
    CHOOSE r \in {IF y[1] > 0 THEN RMul(x, <<y[2], y[1]>>) ELSE RMul(x, <<-y[2], -y[1]>>) :
                    x \in {a}, y \in {b}} : TRUE

RLt(a, b) == RSub(a, b)[1] < 0
RLe(a, b) == RSub(a, b)[1] <= 0
RAbs(a) == CHOOSE r \in {<<Abs(x[1]), x[2]>> : x \in {a}} : TRUE
RMax(a, b) == CHOOSE r \in {IF RLt(x, y) THEN y ELSE x : x \in {a}, y \in {b}} : TRUE
RMin(a, b) == CHOOSE r \in {IF RLt(y, x) THEN y ELSE x : x \in {a}, y \in {b}} : TRUE

-----------------------------------------------------------------------------
(* Tracks.  A gpx object is the sequence of its points in the order the    *)
(* nested loops "for track / for segment / for point" visit them; seg is   *)
(* the <<track, segment>> the point belongs to.                            *)

Pt(lat, lon, seg) == [lat |-> lat, lon |-> lon, seg |-> seg]

\* lat_sum and lon_sum of the loops over the points, up to point k
RECURSIVE SumLatTo(_, _)
SumLatTo(pts, k) == IF k = 0 THEN Zero ELSE RAdd(SumLatTo(pts, k - 1), pts[k].lat)

RECURSIVE SumLonTo(_, _)
SumLonTo(pts, k) == IF k = 0 THEN Zero ELSE RAdd(SumLonTo(pts, k - 1), pts[k].lon)

MeanLat(pts) == RDiv(SumLatTo(pts, Len(pts)), RInt(Len(pts)))
MeanLon(pts) == RDiv(SumLonTo(pts, Len(pts)), RInt(Len(pts)))

-----------------------------------------------------------------------------
(* math.cos(math.radians(x)): exact at the knots 0, 30 (13/15 for 0.8660),  *)
(* 60 and 90 degrees, linear between them, extended by cos(180 - x) =       *)
(* -cos(x) and cos(-x) = cos(x).  x is a rational number of degrees.        *)

CosQuadrant(a) ==
    IF RLe(a, RInt(30)) THEN RSub(One, RMul(a, R(2, 450)))
    ELSE IF RLe(a, RInt(60)) THEN RSub(R(13, 15), RMul(RSub(a, RInt(30)), R(11, 900)))
    ELSE RMul(RSub(RInt(90), a), R(1, 60))

\* degrees brought into (-180, 180]
WrapDeg(n) == LET m == (n + 180) % 360 IN IF m = 0 THEN 180 ELSE m - 180

CosDeg(x) ==
    LET a == RAbs(x)
    IN  IF RLe(a, RInt(90)) THEN CosQuadrant(a)
        ELSE RNeg(CosQuadrant(RSub(RInt(180), a)))

\* for a whole number of degrees, as the rotation always is
CosInt(n) == CosDeg(RInt(WrapDeg(n)))
SinInt(n) == CosDeg(RInt(WrapDeg(90 - WrapDeg(n))))

\* the length of one degree of a great circle of the model's sphere, in metres
MetersPerDegree == RInt(100)

(* geopy.distance.geodesic(p, q).meters for two (lat, lon) pairs that share *)
(* a latitude or a longitude: the arc of the parallel or of the meridian.   *)
(* No other pair is measured by the tracks of this model; the CHOOSE makes  *)
(* TLC stop if one ever is.                                                 *)
geodesic_meters(lat1, lon1, lat2, lon2) ==
    IF lat1 = lat2 THEN RMul(MetersPerDegree, RMul(RAbs(RSub(lon2, lon1)), CosDeg(lat1)))
    ELSE IF lon1 = lon2 THEN RMul(MetersPerDegree, RAbs(RSub(lat2, lat1)))
    ELSE CHOOSE d \in {} : TRUE

-----------------------------------------------------------------------------
(* SvgGpxManager: sampling.  An svg path is a sequence of segments; a      *)
(* segment is a record with type, start, end and its control points, each  *)
(* point a record [x, y] (svgpathtools: .real, .imag).                     *)

XY(x, y) == [x |-> x, y |-> y]

\* fault: numpy.linspace(0, 1, num, endpoint=False), which stops short of t = 1
linspace01_open(num) ==
    IF num <= 0 THEN <<>> ELSE [i \in 1..num |-> R(i - 1, num)]

\* numpy.linspace(0, 1, num): num = 1 gives [0.], num = 0 gives []
linspace01(num) ==
    IF num <= 0 THEN <<>>
    ELSE IF num = 1 THEN <<Zero>>
    ELSE [i \in 1..num |-> R(i - 1, num - 1)]

RPow(a, k) == IF k = 0 THEN One ELSE IF k = 1 THEN a ELSE IF k = 2 THEN RMul(a, a)
              ELSE RMul(a, RMul(a, a))

calculate_cubic_bezier(seg, t_vals) ==
    LET B(t, p0, p1, p2, p3) ==
            RAdd(RAdd(RMul(RPow(RSub(One, t), 3), p0),
                      RMul(RMul(RInt(3), RMul(RPow(RSub(One, t), 2), t)), p1)),
                 RAdd(RMul(RMul(RInt(3), RMul(RSub(One, t), RPow(t, 2))), p2),
                      RMul(RPow(t, 3), p3)))
    IN  [x |-> [i \in DOMAIN t_vals |->
                  B(t_vals[i], seg.start.x, seg.control1.x, seg.control2.x, seg.end.x)],
         y |-> [i \in DOMAIN t_vals |->
                  B(t_vals[i], seg.start.y, seg.control1.y, seg.control2.y, seg.end.y)]]

calculate_quadratic_bezier(seg, t_vals) ==
    LET B(t, p0, p1, p2) ==
            RAdd(RAdd(RMul(RPow(RSub(One, t), 2), p0),
                      RMul(RMul(RInt(2), RMul(RSub(One, t), t)), p1)),
                 RMul(RPow(t, 2), p2))
    IN  [x |-> [i \in DOMAIN t_vals |->
                  B(t_vals[i], seg.start.x, seg.control.x, seg.end.x)],
         y |-> [i \in DOMAIN t_vals |->
                  B(t_vals[i], seg.start.y, seg.control.y, seg.end.y)]]

\* fault: the y axis of the drawing is not flipped
process_line_unflipped(seg, gpx_segment) ==
    gpx_segment \o <<Pt(seg.start.y, seg.start.x, <<1, 1>>),
                     Pt(seg.end.y, seg.end.x, <<1, 1>>)>>

\* appends to gpx_segment: GPXTrackPoint(-pt[1], pt[0]) for start, then for end
process_line(seg, gpx_segment) ==
    gpx_segment \o <<Pt(RNeg(seg.start.y), seg.start.x, <<1, 1>>),
                     Pt(RNeg(seg.end.y), seg.end.x, <<1, 1>>)>>

process_bezier(self, seg, gpx_segment) ==
    LET t_vals == linspace01(self.interpolation_points)
        vals == IF seg.type = "CubicBezier" THEN calculate_cubic_bezier(seg, t_vals)
                ELSE calculate_quadratic_bezier(seg, t_vals)
    IN  gpx_segment \o [i \in DOMAIN t_vals |-> Pt(RNeg(vals.y[i]), vals.x[i], <<1, 1>>)]

\* the inner loop "for seg in path" of convert_svg_to_gpx
RECURSIVE convert_path(_, _, _)
convert_path(self, path, gpx_segment) ==
    IF path = <<>> THEN gpx_segment
    ELSE LET seg == Head(path)
             out == IF seg.type = "Line" THEN process_line(seg, gpx_segment)
                    ELSE IF seg.type \in {"CubicBezier", "QuadraticBezier"}
                         THEN process_bezier(self, seg, gpx_segment)
                    ELSE gpx_segment
         IN  convert_path(self, Tail(path), out)

RECURSIVE convert_paths(_, _, _)
convert_paths(self, paths, gpx_segment) ==
    IF paths = <<>> THEN gpx_segment
    ELSE convert_paths(self, Tail(paths), convert_path(self, Head(paths), gpx_segment))

\* fault: the track segment is started afresh for every path, so only the last path stays
convert_svg_to_gpx_last_path(self, paths) ==
    IF paths = <<>> THEN <<>> ELSE convert_path(self, paths[Len(paths)], <<>>)

convert_svg_to_gpx(self, paths) == convert_paths(self, paths, <<>>)

-----------------------------------------------------------------------------
(* SvgGpxManager: placement.                                               *)

\* Python's min() and max() of a non-empty list of floats
min(xs) == xs[CHOOSE i \in DOMAIN xs : \A j \in DOMAIN xs : RLe(xs[i], xs[j])]
max(xs) == xs[CHOOSE i \in DOMAIN xs : \A j \in DOMAIN xs : RLe(xs[j], xs[i])]

latitudes(gpx) == [i \in DOMAIN gpx |-> gpx[i].lat]
longitudes(gpx) == [i \in DOMAIN gpx |-> gpx[i].lon]

scale_down_factor == R(1, 1000000)

\* largest_dimension of scale_gpx: the bounding box of the scaled-down cloud, in metres
largest_dimension(gpx) ==
    LET min_lat == RMul(min(latitudes(gpx)), scale_down_factor)
        max_lat == RMul(max(latitudes(gpx)), scale_down_factor)
        min_lon == RMul(min(longitudes(gpx)), scale_down_factor)
        max_lon == RMul(max(longitudes(gpx)), scale_down_factor)
        height == geodesic_meters(min_lat, min_lon, max_lat, min_lon)
        width == geodesic_meters(min_lat, min_lon, min_lat, max_lon)
    IN  RMax(height, width)

\* the exception scale_gpx ends with: min() of an empty list, or a float division by 0.0
scale_gpx_raises(self, gpx) ==
    IF gpx = <<>> THEN "ValueError"
    ELSE IF largest_dimension(gpx) = Zero THEN "ZeroDivisionError"
    ELSE "none"

\* fault: the size is the default 100 m, whatever target_size_meters is
scale_gpx_default_size(self, gpx) ==
    LET min_lat == RMul(min(latitudes(gpx)), scale_down_factor)
        min_lon == RMul(min(longitudes(gpx)), scale_down_factor)
        scale_factor == RMul(RDiv(RInt(100), largest_dimension(gpx)), scale_down_factor)
    IN  [i \in DOMAIN gpx |->
            Pt(RAdd(min_lat, RMul(RSub(gpx[i].lat, min_lat), scale_factor)),
               RAdd(min_lon, RMul(RSub(gpx[i].lon, min_lon), scale_factor)),
               <<1, 1>>)]

\* the track scale_gpx returns when it raises nothing: one track, one segment
scale_gpx(self, gpx) ==
    LET min_lat == RMul(min(latitudes(gpx)), scale_down_factor)
        min_lon == RMul(min(longitudes(gpx)), scale_down_factor)
        scale_factor == RMul(RDiv(self.target_size_meters, largest_dimension(gpx)),
                             scale_down_factor)
    IN  [i \in DOMAIN gpx |->
            Pt(RAdd(min_lat, RMul(RSub(gpx[i].lat, min_lat), scale_factor)),
               RAdd(min_lon, RMul(RSub(gpx[i].lon, min_lon), scale_factor)),
               <<1, 1>>)]

\* np.mean of an empty list is nan and the loop body never runs: gpx comes back as it is
center_gpx_at(self, gpx) ==
    IF gpx = <<>> THEN gpx
    ELSE LET lat_offset == RSub(self.center_lat, MeanLat(gpx))
             lon_offset == RSub(self.center_lon, MeanLon(gpx))
         IN  [i \in DOMAIN gpx |->
                [gpx[i] EXCEPT !.lat = RAdd(@, lat_offset), !.lon = RAdd(@, lon_offset)]]

-----------------------------------------------------------------------------
(* The files the dialogs can name.  svgpathtools.svg2paths gives a list of *)
(* paths.  The drawings keep their lowest latitude candidate (-y) and      *)
(* lowest x at 0, so that the 1e-6 scale-down of scale_gpx stays exact in  *)
(* 32-bit numerators.                                                      *)

P(x, y) == XY(RInt(x), RInt(y))
Line(a, b) == [type |-> "Line", start |-> a, end |-> b]
QuadraticBezier(a, c, b) == [type |-> "QuadraticBezier", start |-> a, control |-> c, end |-> b]
CubicBezier(a, c1, c2, b) ==
    [type |-> "CubicBezier", start |-> a, control1 |-> c1, control2 |-> c2, end |-> b]
Arc(a, b) == [type |-> "Arc", start |-> a, end |-> b]

SvgFiles ==
    [ hline    |-> << <<Line(P(0, 0), P(10, 0))>> >>,
      vline    |-> << <<Line(P(0, 0), P(0, -10))>> >>,
      wide_l   |-> << <<Line(P(0, 0), P(4, 0)), Line(P(4, 0), P(4, -2))>> >>,
      tall_l   |-> << <<Line(P(0, 0), P(0, -6)), Line(P(0, -6), P(3, -6))>> >>,
      square   |-> << <<Line(P(0, 0), P(1, 0)), Line(P(1, 0), P(1, -1)),
                        Line(P(1, -1), P(0, -1)), Line(P(0, -1), P(0, 0))>> >>,
      quad     |-> << <<QuadraticBezier(P(0, 0), P(2, -4), P(4, 0))>> >>,
      cubic    |-> << <<CubicBezier(P(0, 0), P(0, -3), P(6, -3), P(6, 0))>> >>,
      flat_q   |-> << <<QuadraticBezier(P(0, 0), P(2, 0), P(8, 0))>> >>,
      arc      |-> << <<Arc(P(0, 0), P(5, 0))>> >>,
      mixed    |-> << <<Line(P(0, 0), P(2, 0)), Arc(P(2, 0), P(4, 0)),
                        Line(P(4, 0), P(4, -4))>> >>,
      two      |-> << <<Line(P(0, 0), P(3, 0))>>,
                      <<QuadraticBezier(P(3, 0), P(5, -2), P(3, -4))>> >>,
      step     |-> << <<Line(P(0, 0), P(0, -1)), Line(P(0, -1), P(4, -1)),
                        Line(P(4, -1), P(4, -2))>> >>,
      dot      |-> << <<Line(P(0, 0), P(0, 0))>> >>,
      nothing  |-> << >> ]

\* os.path.exists(file_name) is false for a name outside the file table
SvgNames == DOMAIN SvgFiles

\* SvgGpxManager.__init__: the fields; MainWindow builds it with the defaults, whose
\* centre (54.904643, 23.957831) is moved to (60, 24), where the cosine table is exact
SvgGpxManager(target_size_meters, center_lat, center_lon, interpolation_points) ==
    [target_size_meters |-> target_size_meters, center_lat |-> center_lat,
     center_lon |-> center_lon, interpolation_points |-> interpolation_points]

DefaultManager == SvgGpxManager(RInt(100), RInt(60), RInt(24), 3)

\* SvgGpxManager.load_svg
load_svg_raises(file_name) ==
    IF file_name \notin SvgNames THEN "FileNotFoundError" ELSE "none"

\* process_svg_file: the exception it ends with, and what it returns otherwise
process_svg_file_raises(self, file_name) ==
    IF load_svg_raises(file_name) # "none" THEN load_svg_raises(file_name)
    ELSE scale_gpx_raises(self, convert_svg_to_gpx(self, SvgFiles[file_name]))

process_svg_file(self, file_name) ==
    LET paths == SvgFiles[file_name]
        gpx == convert_svg_to_gpx(self, paths)
    IN  [svg_paths |-> paths, gpx |-> center_gpx_at(self, scale_gpx(self, gpx))]

-----------------------------------------------------------------------------
(* Track files.  gpxpy.parse gives the points of the file; a name outside  *)
(* the table does not exist, and bad_xml is a file gpxpy cannot parse.     *)

G(lat, lon, seg) == Pt(RInt(lat), RInt(lon), seg)

GpxFiles ==
    [ east     |-> <<G(60, 24, <<1, 1>>), G(60, 26, <<1, 1>>)>>,
      fork     |-> <<G(59, 10, <<1, 1>>), G(61, 10, <<1, 1>>),
                     G(60, 10, <<1, 2>>), G(60, 14, <<1, 2>>)>>,
      equator  |-> <<G(0, -2, <<1, 1>>), G(0, 2, <<1, 1>>)>>,
      meridian |-> <<G(-1, 0, <<1, 1>>), G(3, 0, <<2, 1>>)>>,
      point    |-> <<G(60, 24, <<1, 1>>)>>,
      empty    |-> << >> ]

GpxNames == DOMAIN GpxFiles

\* SvgGpxManager.load_gpx
load_gpx_raises(file_name) ==
    IF file_name = "bad_xml" THEN "GPXXMLSyntaxException"
    ELSE IF file_name \notin GpxNames THEN "FileNotFoundError"
    ELSE "none"

-----------------------------------------------------------------------------
(* The three methods of SvgGpxManager that MainWindow calls and that the   *)
(* class as given does not define.                                         *)

\* (None, None) for a track without points, else the arithmetic means
get_path_center_lat_lon(gpx) ==
    IF gpx = <<>> THEN [lat |-> NoFloat, lon |-> NoFloat]
    ELSE [lat |-> MeanLat(gpx), lon |-> MeanLon(gpx)]

\* every point's offset from (center_lat, center_lon) times scale_factor
scale_gpx_around_point(gpx, center_lat, center_lon, scale_factor) ==
    [i \in DOMAIN gpx |->
        [gpx[i] EXCEPT !.lat = RAdd(center_lat, RMul(RSub(@, center_lat), scale_factor)),
                       !.lon = RAdd(center_lon, RMul(RSub(@, center_lon), scale_factor))]]

\* the geodesic length, in km, of the polyline through the first k points
RECURSIVE LengthKmTo(_, _)
LengthKmTo(gpx, k) ==
    IF k < 2 THEN Zero
    ELSE RAdd(LengthKmTo(gpx, k - 1),
              RDiv(geodesic_meters(gpx[k - 1].lat, gpx[k - 1].lon, gpx[k].lat, gpx[k].lon),
                   RInt(1000)))

calculate_gpx_length_km(gpx) == LengthKmTo(gpx, Len(gpx))

-----------------------------------------------------------------------------
(* MainWindow: the transforms.                                             *)

\* Python's "not x" for a float or None
Falsy(x) == x = NoFloat \/ x = Zero

\* fault: the offsets are scaled from the first point of the track, not from its centroid
scale_gpx_path_about_first_point(gpx, scale_factor) ==
    IF gpx = <<>> THEN gpx
    ELSE scale_gpx_around_point(gpx, gpx[1].lat, gpx[1].lon, scale_factor)

\* fault: the centroid is tested for None, so that 0.0 is a coordinate like any other
scale_gpx_path_testing_for_none(gpx, scale_factor) ==
    IF gpx = <<>> THEN gpx
    ELSE scale_gpx_around_point(gpx, MeanLat(gpx), MeanLon(gpx), scale_factor)

scale_gpx_path(gpx, scale_factor) ==
    LET c == get_path_center_lat_lon(gpx)
    IN  IF Falsy(c.lat) \/ Falsy(c.lon) THEN gpx
        ELSE scale_gpx_around_point(gpx, c.lat, c.lon, scale_factor)

\* fault: the longitude offset is dropped
translate_gpx_path_lat_only(gpx, lat_offset, lng_offset) ==
    [i \in DOMAIN gpx |-> [gpx[i] EXCEPT !.lat = RAdd(@, lat_offset)]]

translate_gpx_path(gpx, lat_offset, lng_offset) ==
    [i \in DOMAIN gpx |->
        [gpx[i] EXCEPT !.lat = RAdd(@, lat_offset), !.lon = RAdd(@, lng_offset)]]

\* fault: the longitudes are stretched from the meridian 0, not from their mean
stretch_longitudes_from_meridian(self, gpx, center_lon) ==
    [i \in DOMAIN gpx |-> [gpx[i] EXCEPT !.lon = RMul(self.hor_scale, @)]]

\* the horizontal scaling loop of gpx_transform_and_rotate
stretch_longitudes(self, gpx, center_lon) ==
    [i \in DOMAIN gpx |->
        [gpx[i] EXCEPT !.lon = RAdd(center_lon, RMul(self.hor_scale, RSub(@, center_lon)))]]

\* fault: the angle is not negated, a positive rotation turns anticlockwise
rotate_about_anticlockwise(self, gpx, center_lat, center_lon) ==
    LET cos_a == CosInt(self.rotation)
        sin_a == SinInt(self.rotation)
    IN  [i \in DOMAIN gpx |->
            LET dlat == RSub(gpx[i].lat, center_lat)
                dlon == RSub(gpx[i].lon, center_lon)
            IN  [gpx[i] EXCEPT
                    !.lon = RAdd(center_lon, RSub(RMul(dlon, cos_a), RMul(dlat, sin_a))),
                    !.lat = RAdd(center_lat, RAdd(RMul(dlon, sin_a), RMul(dlat, cos_a)))]]

\* the rotation loop of gpx_transform_and_rotate
rotate_about(self, gpx, center_lat, center_lon) ==
    LET cos_a == CosInt(-self.rotation)
        sin_a == SinInt(-self.rotation)
    IN  [i \in DOMAIN gpx |->
            LET dlat == RSub(gpx[i].lat, center_lat)
                dlon == RSub(gpx[i].lon, center_lon)
                new_dlon == RSub(RMul(dlon, cos_a), RMul(dlat, sin_a))
                new_dlat == RAdd(RMul(dlon, sin_a), RMul(dlat, cos_a))
            IN  [gpx[i] EXCEPT !.lon = RAdd(center_lon, new_dlon),
                               !.lat = RAdd(center_lat, new_dlat)]]

\* fault: the track is turned first and stretched afterwards
gpx_transform_and_rotate_turning_first(self, gpx) ==
    IF gpx = <<>> THEN gpx
    ELSE CHOOSE new_gpx \in
            {stretch_longitudes(self, turned, MeanLon(gpx)) :
                turned \in {rotate_about(self, gpx, MeanLat(gpx), MeanLon(gpx))}} : TRUE

\* self is [rotation, hor_scale]
gpx_transform_and_rotate(self, gpx) ==
    IF gpx = <<>> THEN gpx
    ELSE CHOOSE new_gpx \in
            {rotate_about(self, stretched, center_lat, center_lon) :
                stretched \in {stretch_longitudes(self, gpx, MeanLon(gpx))},
                center_lat \in {MeanLat(gpx)}, center_lon \in {MeanLon(gpx)}} : TRUE

\* fault: the longitudes are scaled from the meridian 0, not from their mean
fix_lat_lon_scaling_about_meridian(gpx, reversed) ==
    IF gpx = <<>> THEN gpx
    ELSE LET factor0 == RDiv(One, CosDeg(MeanLat(gpx)))
             factor == IF reversed THEN RDiv(One, factor0) ELSE factor0
         IN  [i \in DOMAIN gpx |-> [gpx[i] EXCEPT !.lon = RMul(@, factor)]]

\* fault: the factor is not inverted when reversed is set
fix_lat_lon_scaling_never_reversed(gpx, reversed) ==
    IF gpx = <<>> THEN gpx
    ELSE LET factor == RDiv(One, CosDeg(MeanLat(gpx)))
             center_lon == MeanLon(gpx)
         IN  [i \in DOMAIN gpx |->
                [gpx[i] EXCEPT !.lon = RAdd(center_lon, RMul(RSub(@, center_lon), factor))]]

fix_lat_lon_scaling(gpx, reversed) ==
    IF gpx = <<>> THEN gpx
    ELSE LET avg_lat == MeanLat(gpx)
             factor0 == RDiv(One, CosDeg(avg_lat))
             factor == IF reversed THEN RDiv(One, factor0) ELSE factor0
             center_lon == MeanLon(gpx)
         IN  [i \in DOMAIN gpx |->
                [gpx[i] EXCEPT !.lon = RAdd(center_lon, RMul(RSub(@, center_lon), factor))]]

\* fault: the means are taken without the test for a track without points
raises_without_count_test(gpx) == IF gpx = <<>> THEN "ZeroDivisionError" ELSE "none"

\* what the two methods raise: the only divisions by count come after the
\* return for count == 0, and math.cos of a float is never exactly 0.0
gpx_transform_and_rotate_raises(gpx) == "none"
fix_lat_lon_scaling_raises(gpx) == "none"

\* fault: final is the affine image of working, without the correction
update_final_gpx_uncorrected(self, working, final) ==
    IF working = NoGpx THEN final ELSE gpx_transform_and_rotate(self, working)

\* fault: final is patched, the transform applied to the final that is there
update_final_gpx_patching(self, working, final) ==
    IF working = NoGpx THEN final
    ELSE fix_lat_lon_scaling(gpx_transform_and_rotate(self, final), FALSE)

\* update_final_gpx: the final snapshot it leaves, given the one it found
update_final_gpx(self, working, final) ==
    IF working = NoGpx THEN final
    ELSE fix_lat_lon_scaling(gpx_transform_and_rotate(self, working), FALSE)

\* len_slider_to_km for the slider positions the model moves it to (whole decades)
len_slider_to_km(slider_value) ==
    LET exponent == (slider_value \div 1000) - 1
    IN  IF exponent = -1 THEN R(1, 10)
        ELSE IF exponent = 0 THEN One
        ELSE IF exponent = 1 THEN RInt(10)
        ELSE RInt(100)

\* math.log10 raises ValueError ("math domain error") for val_km <= 0
len_km_to_slider_raises(val_km) == IF RLe(val_km, Zero) THEN "ValueError" ELSE "none"

\* int((log10(val_km) + 1) * 1000) for the lengths that are typed in the model
len_km_to_slider(val_km) ==
    IF val_km = R(1, 10) THEN 0
    ELSE IF val_km = One THEN 1000
    ELSE IF val_km = RInt(2) THEN 1301
    ELSE IF val_km = RInt(10) THEN 2000
    ELSE 3000

\* QSlider.setValue keeps the value inside [minimum, maximum]
Clamp(v, lo, hi) == IF v < lo THEN lo ELSE IF v > hi THEN hi ELSE v

-----------------------------------------------------------------------------
(* MainWindow: the handlers.  Each action is one handler run to its end;   *)
(* last records which one, its input, the exception that escaped it and    *)
(* the snapshots it found.                                                 *)

MaxEdits == 3

Self == [rotation |-> rotation, hor_scale |-> hor_scale]

Before == [original |-> gpx_data_1_original, working |-> gpx_data_2_scaled_translated,
           final |-> gpx_data_3_final, rotation |-> rotation, hor_scale |-> hor_scale]

Ran(op, arg, raised) ==
    /\ last' = [op |-> op, arg |-> arg, raised |-> raised, before |-> Before]
    /\ edits' = edits + 1

Snapshots == <<gpx_data_1_original, gpx_data_2_scaled_translated, gpx_data_3_final>>
Transform == <<rotation, hor_scale, rotation_slider, stretch_slider>>

\* the files the dialogs are pointed at: drawings whose samples are joined by legs
\* along a parallel or a meridian, a drawing without points, a name that does not exist
OpenableSvg == {"step", "arc", "dot", "missing.svg", ""}
OpenableGpx == {"fork", "equator", "empty", "bad_xml", "missing.gpx", ""}

\* update_all_slider_from_gpx: setValue emits valueChanged only when the value changes,
\* and the slot then sets the field from the slider
\* fault: setting the slider back does not reach the rotation
rotation_carried_over == rotation

rotation_after_reset == IF rotation_slider # 0 THEN 0 ELSE rotation
hor_scale_after_reset == IF stretch_slider # 100 THEN R(100, 100) ELSE hor_scale

\* what a successful load leaves, given the new original
Loaded(original) ==
    \E gpx \in {original} :
        /\ gpx_data_1_original' = gpx
        /\ gpx_data_2_scaled_translated' = gpx
        /\ rotation_slider' = 0
        /\ stretch_slider' = 100
        /\ rotation' = rotation_after_reset
        /\ hor_scale' = hor_scale_after_reset
        /\ gpx_data_3_final' =
              update_final_gpx([rotation |-> rotation_after_reset,
                                hor_scale |-> hor_scale_after_reset], gpx, gpx)

\* self.svg_gpx_manager.process_svg_file(file_name) as load_svg sees it: what it
\* raises and, if nothing, what it returns
process_svg_file_outcome(self, file_name) ==
    [raises |-> process_svg_file_raises(self, file_name),
     returns |-> IF process_svg_file_raises(self, file_name) # "none" THEN None
                 ELSE process_svg_file(self, file_name)]

\* the manager the window constructs is never reconfigured: what it makes of each
\* drawing is the same on every call
svg_gpx_manager_outcomes ==
    [file_name \in OpenableSvg \ {""} |-> process_svg_file_outcome(DefaultManager, file_name)]

svg_gpx_manager_process_svg_file(self, file_name) ==
    IF self = DefaultManager /\ file_name \in DOMAIN svg_gpx_manager_outcomes
    THEN svg_gpx_manager_outcomes[file_name]
    ELSE process_svg_file_outcome(self, file_name)

load_svg(file_name) ==
    /\ edits < MaxEdits
    /\ Ran("load_svg", file_name, "none")
    /\ UNCHANGED <<mgr, job, path_length_slider>>
    /\ IF file_name = ""
       THEN UNCHANGED <<Snapshots, Transform, svg_paths, status_label>>
       ELSE \E processed \in {svg_gpx_manager_process_svg_file(mgr, file_name)} :
               IF processed.raises # "none"
               THEN /\ status_label' = <<"Error loading SVG", processed.raises>>
                    /\ UNCHANGED <<Snapshots, Transform, svg_paths>>
               ELSE /\ svg_paths' = processed.returns.svg_paths
                    /\ Loaded(processed.returns.gpx)
                    /\ status_label' = <<"Loaded SVG", file_name>>

\* fault: the track read from the file is taken as original without the reversed correction
load_gpx_without_reversed_correction(file_name) ==
    /\ edits < MaxEdits
    /\ Ran("load_gpx", file_name, "none")
    /\ UNCHANGED <<mgr, job, path_length_slider>>
    /\ IF file_name = ""
       THEN UNCHANGED <<Snapshots, Transform, svg_paths, status_label>>
       ELSE IF load_gpx_raises(file_name) # "none"
       THEN /\ status_label' = <<"Error loading GPX", load_gpx_raises(file_name)>>
            /\ UNCHANGED <<Snapshots, Transform, svg_paths>>
       ELSE /\ svg_paths' = NoPaths
            /\ Loaded(GpxFiles[file_name])
            /\ status_label' = <<"Loaded GPX", file_name>>

\* fault: a load that fails leaves no track, as if (None, None) had been returned
load_gpx_clearing_on_failure(file_name) ==
    /\ edits < MaxEdits
    /\ Ran("load_gpx", file_name, "none")
    /\ UNCHANGED <<mgr, job, path_length_slider>>
    /\ IF file_name = ""
       THEN UNCHANGED <<Snapshots, Transform, svg_paths, status_label>>
       ELSE IF load_gpx_raises(file_name) # "none"
       THEN /\ status_label' = <<"Error loading GPX", load_gpx_raises(file_name)>>
            /\ gpx_data_1_original' = NoGpx
            /\ gpx_data_2_scaled_translated' = NoGpx
            /\ gpx_data_3_final' = NoGpx
            /\ UNCHANGED <<Transform, svg_paths>>
       ELSE /\ svg_paths' = NoPaths
            /\ Loaded(fix_lat_lon_scaling(GpxFiles[file_name], TRUE))
            /\ status_label' = <<"Loaded GPX", file_name>>

load_gpx(file_name) ==
    /\ edits < MaxEdits
    /\ Ran("load_gpx", file_name, "none")
    /\ UNCHANGED <<mgr, job, path_length_slider>>
    /\ IF file_name = ""
       THEN UNCHANGED <<Snapshots, Transform, svg_paths, status_label>>
       ELSE IF load_gpx_raises(file_name) # "none"
       THEN /\ status_label' = <<"Error loading GPX", load_gpx_raises(file_name)>>
            /\ UNCHANGED <<Snapshots, Transform, svg_paths>>
       ELSE /\ svg_paths' = NoPaths
            /\ Loaded(fix_lat_lon_scaling(GpxFiles[file_name], TRUE))
            /\ status_label' = <<"Loaded GPX", file_name>>

\* resize_to_target_path_length: whether it returns before scaling, and the working it leaves
resize_returns_early(target_length_km) ==
    \/ RLe(target_length_km, Zero)
    \/ gpx_data_1_original = NoGpx
    \/ calculate_gpx_length_km(gpx_data_2_scaled_translated) = Zero

resize_to_target_path_length(target_length_km) ==
    IF resize_returns_early(target_length_km)
    THEN UNCHANGED <<gpx_data_2_scaled_translated, gpx_data_3_final>>
    ELSE /\ gpx_data_2_scaled_translated' =
               scale_gpx_path(gpx_data_2_scaled_translated,
                   RDiv(target_length_km,
                        calculate_gpx_length_km(gpx_data_2_scaled_translated)))
         /\ gpx_data_3_final' =
               update_final_gpx(Self, gpx_data_2_scaled_translated', gpx_data_3_final)

LengthSliderValues == {0, 1000, 2000}

\* fault: original is the same object as working, and is resized with it
update_path_length_from_slider_aliased(slider_value) ==
    /\ edits < MaxEdits
    /\ slider_value # path_length_slider
    /\ path_length_slider' = slider_value
    /\ resize_to_target_path_length(len_slider_to_km(slider_value))
    /\ gpx_data_1_original' = gpx_data_2_scaled_translated'
    /\ Ran("update_path_length_from_slider", slider_value, "none")
    /\ UNCHANGED <<mgr, job, svg_paths, Transform, status_label>>

update_path_length_from_slider(slider_value) ==
    /\ edits < MaxEdits
    /\ slider_value # path_length_slider
    /\ path_length_slider' = slider_value
    /\ resize_to_target_path_length(len_slider_to_km(slider_value))
    /\ Ran("update_path_length_from_slider", slider_value, "none")
    /\ UNCHANGED <<mgr, job, svg_paths, gpx_data_1_original, Transform, status_label>>

\* what the user leaves in a QLineEdit: text float()/int() rejects, or a number
NotANumber == [kind |-> "text"]
Typed(val) == [kind |-> "number", val |-> val]

TypedLengths == {NotANumber, Typed(RInt(-1)), Typed(Zero), Typed(RInt(2))}

update_path_length_from_input(text) ==
    /\ edits < MaxEdits
    /\ UNCHANGED <<mgr, job, svg_paths, gpx_data_1_original, Transform, status_label>>
    /\ IF text.kind = "text"
       THEN /\ Ran("update_path_length_from_input", text, "none")
            /\ UNCHANGED <<path_length_slider, gpx_data_2_scaled_translated, gpx_data_3_final>>
       ELSE IF len_km_to_slider_raises(text.val) # "none"
       THEN /\ Ran("update_path_length_from_input", text, len_km_to_slider_raises(text.val))
            /\ UNCHANGED <<path_length_slider, gpx_data_2_scaled_translated, gpx_data_3_final>>
       ELSE /\ Ran("update_path_length_from_input", text, "none")
            /\ path_length_slider' = Clamp(len_km_to_slider(text.val), 0, 3000)
            /\ resize_to_target_path_length(text.val)

RotationSliderValues == {-90, 0, 90}
TypedRotations == {NotANumber, Typed(270), Typed(30)}

\* fault: the rotation is applied to working itself, and final derived from that
update_rotation_from_slider_in_place(value) ==
    /\ edits < MaxEdits
    /\ value # rotation_slider
    /\ rotation_slider' = value
    /\ rotation' = value
    /\ gpx_data_2_scaled_translated' =
          IF gpx_data_2_scaled_translated = NoGpx THEN NoGpx
          ELSE gpx_transform_and_rotate([rotation |-> value, hor_scale |-> hor_scale],
                                        gpx_data_2_scaled_translated)
    /\ gpx_data_3_final' =
          IF gpx_data_2_scaled_translated = NoGpx THEN gpx_data_3_final
          ELSE fix_lat_lon_scaling(gpx_data_2_scaled_translated', FALSE)
    /\ Ran("update_rotation_from_slider", value, "none")
    /\ UNCHANGED <<mgr, job, svg_paths, gpx_data_1_original,
                   hor_scale, path_length_slider, stretch_slider, status_label>>

update_rotation_from_slider(value) ==
    /\ edits < MaxEdits
    /\ value # rotation_slider
    /\ rotation_slider' = value
    /\ rotation' = value
    /\ gpx_data_3_final' =
          update_final_gpx([rotation |-> value, hor_scale |-> hor_scale],
                           gpx_data_2_scaled_translated, gpx_data_3_final)
    /\ Ran("update_rotation_from_slider", value, "none")
    /\ UNCHANGED <<mgr, job, svg_paths, gpx_data_1_original, gpx_data_2_scaled_translated,
                   hor_scale, path_length_slider, stretch_slider, status_label>>

update_rotation_from_input(text) ==
    /\ edits < MaxEdits
    /\ Ran("update_rotation_from_input", text, "none")
    /\ UNCHANGED <<mgr, job, svg_paths, gpx_data_1_original, gpx_data_2_scaled_translated,
                   hor_scale, path_length_slider, stretch_slider, status_label>>
    /\ IF text.kind = "text"
       THEN UNCHANGED <<rotation_slider, rotation, gpx_data_3_final>>
       ELSE /\ rotation_slider' = Clamp(text.val, -180, 180)
            /\ rotation' = text.val
            /\ gpx_data_3_final' =
                  update_final_gpx([rotation |-> text.val, hor_scale |-> hor_scale],
                                   gpx_data_2_scaled_translated, gpx_data_3_final)

StretchSliderValues == {50, 100, 200}
TypedStretches == {NotANumber, Typed(0), Typed(1000)}

update_stretch_from_slider(value) ==
    /\ edits < MaxEdits
    /\ value # stretch_slider
    /\ stretch_slider' = value
    /\ hor_scale' = R(value, 100)
    /\ gpx_data_3_final' =
          update_final_gpx([rotation |-> rotation, hor_scale |-> R(value, 100)],
                           gpx_data_2_scaled_translated, gpx_data_3_final)
    /\ Ran("update_stretch_from_slider", value, "none")
    /\ UNCHANGED <<mgr, job, svg_paths, gpx_data_1_original, gpx_data_2_scaled_translated,
                   rotation, path_length_slider, rotation_slider, status_label>>

update_stretch_from_input(text) ==
    /\ edits < MaxEdits
    /\ Ran("update_stretch_from_input", text, "none")
    /\ UNCHANGED <<mgr, job, svg_paths, gpx_data_1_original, gpx_data_2_scaled_translated,
                   rotation, path_length_slider, rotation_slider, status_label>>
    /\ IF text.kind = "text"
       THEN UNCHANGED <<stretch_slider, hor_scale, gpx_data_3_final>>
       ELSE /\ stretch_slider' = Clamp(text.val, 25, 400)
            /\ hor_scale' = R(text.val, 100)
            /\ gpx_data_3_final' =
                  update_final_gpx([rotation |-> rotation, hor_scale |-> R(text.val, 100)],
                                   gpx_data_2_scaled_translated, gpx_data_3_final)

\* map.getCenter() as runJavaScript hands it over: None, or {"lat": .., "lng": ..}
LatLng(lat, lng) == [lat |-> lat, lng |-> lng]
MapCenters == {None, LatLng(Zero, Zero), LatLng(RInt(30), RInt(-10))}

\* the exception that escapes move_path_to_center_js_cb: the centroid of a track that is
\* None or has no points cannot be subtracted from
move_path_to_center_raises(map_center) ==
    IF map_center = None THEN "none"
    ELSE IF gpx_data_2_scaled_translated = NoGpx THEN "AttributeError"
    ELSE IF gpx_data_2_scaled_translated = <<>> THEN "TypeError"
    ELSE "none"

move_path_to_center_js_cb(map_center) ==
    /\ edits < MaxEdits
    /\ Ran("move_path_to_center_js_cb", map_center, move_path_to_center_raises(map_center))
    /\ UNCHANGED <<mgr, job, svg_paths, gpx_data_1_original, Transform,
                   path_length_slider, status_label>>
    /\ IF map_center = None \/ move_path_to_center_raises(map_center) # "none"
       THEN UNCHANGED <<gpx_data_2_scaled_translated, gpx_data_3_final>>
       ELSE LET c == get_path_center_lat_lon(gpx_data_2_scaled_translated)
                lat_offset == RSub(map_center.lat, c.lat)
                lon_offset == RSub(map_center.lng, c.lon)
            IN  /\ gpx_data_2_scaled_translated' =
                      translate_gpx_path(gpx_data_2_scaled_translated, lat_offset, lon_offset)
                /\ gpx_data_3_final' =
                      update_final_gpx(Self, gpx_data_2_scaled_translated', gpx_data_3_final)

\* what runJavaScript hands translate_gpx_with_marker for
\* JSON.stringify(window.gpxPolyline.getLatLngs()): nothing (None), text that is no
\* JSON, the text "null", or a JSON list
JsUndefined == [kind |-> "undefined"]
JsGarbage == [kind |-> "garbage"]
JsNull == [kind |-> "null"]
JsList(coords) == [kind |-> "list", coords |-> coords]

\* the polyline shows final; a drag of the handle moves every vertex by the same delta
Polyline(delta) ==
    IF gpx_data_3_final = NoGpx THEN <<>>
    ELSE [i \in DOMAIN gpx_data_3_final |->
            LatLng(RAdd(gpx_data_3_final[i].lat, delta.lat),
                   RAdd(gpx_data_3_final[i].lon, delta.lng))]

DragDeltas == {LatLng(Zero, RInt(2))}

\* a list one entry shorter than the track, its entries working's moved by
\* delta, and a list one entry longer than the track: the polyline after a drag
\* by delta and one more vertex
ShorterPolyline(delta) ==
    [i \in 1..(Len(gpx_data_2_scaled_translated) - 1) |->
        LatLng(RAdd(gpx_data_2_scaled_translated[i].lat, delta.lat),
               RAdd(gpx_data_2_scaled_translated[i].lon, delta.lng))]
LongerPolyline(delta) == Append(Polyline(delta), LatLng(Zero, Zero))

DragResults ==
    {JsUndefined, JsGarbage, JsNull, JsList(<<[x |-> 1]>>)}
    \cup {JsList(Polyline(d)) : d \in DragDeltas}
    \cup {JsList(ShorterPolyline(LatLng(RInt(1), Zero))),
          JsList(LongerPolyline(LatLng(RInt(1), Zero)))}

\* json.loads: a failure is caught and leaves coords_list = None
coords_list_of(js_result) == IF js_result.kind = "list" THEN js_result.coords ELSE None

\* the points of working with the first len(coords_list) of them overwritten
gpx_from_map(gpx, coords_list) ==
    [i \in DOMAIN gpx |->
        IF i <= Len(coords_list)
        THEN [gpx[i] EXCEPT !.lat = coords_list[i].lat, !.lon = coords_list[i].lng]
        ELSE gpx[i]]

\* the exception that escapes translate_gpx_with_marker
translate_gpx_with_marker_raises(js_result) ==
    LET coords_list == coords_list_of(js_result)
        gpx == gpx_data_2_scaled_translated
    IN  IF js_result.kind # "list" THEN "none"
        ELSE IF gpx = NoGpx THEN "AttributeError"
        ELSE IF \E i \in DOMAIN gpx : /\ i <= Len(coords_list)
                                      /\ ~({"lat", "lng"} \subseteq DOMAIN coords_list[i])
             THEN "KeyError"
        ELSE IF gpx = <<>> THEN "TypeError"
        ELSE "none"

\* fault: working becomes the track read from the map, point for point
translate_gpx_with_marker_replacing(js_result) ==
    /\ edits < MaxEdits
    /\ Ran("translate_gpx_with_marker", js_result, translate_gpx_with_marker_raises(js_result))
    /\ UNCHANGED <<mgr, job, svg_paths, gpx_data_1_original, Transform,
                   path_length_slider, status_label>>
    /\ IF js_result.kind # "list" \/ translate_gpx_with_marker_raises(js_result) # "none"
       THEN UNCHANGED <<gpx_data_2_scaled_translated, gpx_data_3_final>>
       ELSE /\ gpx_data_2_scaled_translated' =
                  gpx_from_map(gpx_data_2_scaled_translated, js_result.coords)
            /\ gpx_data_3_final' =
                  update_final_gpx(Self, gpx_data_2_scaled_translated', gpx_data_3_final)

\* fault: working becomes the list read from the map, as long as the list is
translate_gpx_with_marker_adopting_list(js_result) ==
    /\ edits < MaxEdits
    /\ Ran("translate_gpx_with_marker", js_result, translate_gpx_with_marker_raises(js_result))
    /\ UNCHANGED <<mgr, job, svg_paths, gpx_data_1_original, Transform,
                   path_length_slider, status_label>>
    /\ IF js_result.kind # "list" \/ translate_gpx_with_marker_raises(js_result) # "none"
       THEN UNCHANGED <<gpx_data_2_scaled_translated, gpx_data_3_final>>
       ELSE /\ gpx_data_2_scaled_translated' =
                  [i \in DOMAIN js_result.coords |->
                      Pt(js_result.coords[i].lat, js_result.coords[i].lng, <<1, 1>>)]
            /\ gpx_data_3_final' =
                  update_final_gpx(Self, gpx_data_2_scaled_translated', gpx_data_3_final)

translate_gpx_with_marker(js_result) ==
    /\ edits < MaxEdits
    /\ Ran("translate_gpx_with_marker", js_result, translate_gpx_with_marker_raises(js_result))
    /\ UNCHANGED <<mgr, job, svg_paths, gpx_data_1_original, Transform,
                   path_length_slider, status_label>>
    /\ IF js_result.kind # "list" \/ translate_gpx_with_marker_raises(js_result) # "none"
       THEN UNCHANGED <<gpx_data_2_scaled_translated, gpx_data_3_final>>
       ELSE LET prev == get_path_center_lat_lon(gpx_data_2_scaled_translated)
                new == get_path_center_lat_lon(
                          gpx_from_map(gpx_data_2_scaled_translated, js_result.coords))
                lat_offset == RSub(new.lat, prev.lat)
                lon_offset == RSub(new.lon, prev.lon)
            IN  /\ gpx_data_2_scaled_translated' =
                      translate_gpx_path(gpx_data_2_scaled_translated, lat_offset, lon_offset)
                /\ gpx_data_3_final' =
                      update_final_gpx(Self, gpx_data_2_scaled_translated', gpx_data_3_final)

-----------------------------------------------------------------------------
(* process_svg_file, call by call, for the claims about the sampler and    *)
(* the placement.                                                          *)

IdleJob == [pc |-> "idle", file |-> "", svg_paths |-> NoPaths, sampled |-> NoGpx,
            scaled |-> NoGpx, placed |-> NoGpx, raised |-> "none"]

job_load_svg ==
    /\ job.pc = "load_svg"
    /\ job' = IF load_svg_raises(job.file) # "none"
              THEN [job EXCEPT !.pc = "raised", !.raised = load_svg_raises(job.file)]
              ELSE [job EXCEPT !.pc = "convert_svg_to_gpx", !.svg_paths = SvgFiles[job.file]]
    /\ UNCHANGED <<mgr, svg_paths, Snapshots, Transform, path_length_slider,
                   status_label, last, edits, Aside>>

job_convert_svg_to_gpx ==
    /\ job.pc = "convert_svg_to_gpx"
    /\ job' = [job EXCEPT !.pc = "scale_gpx",
                          !.sampled = convert_svg_to_gpx(mgr, job.svg_paths)]
    /\ UNCHANGED <<mgr, svg_paths, Snapshots, Transform, path_length_slider,
                   status_label, last, edits, Aside>>

job_scale_gpx ==
    /\ job.pc = "scale_gpx"
    /\ job' = IF scale_gpx_raises(mgr, job.sampled) # "none"
              THEN [job EXCEPT !.pc = "raised", !.raised = scale_gpx_raises(mgr, job.sampled)]
              ELSE [job EXCEPT !.pc = "center_gpx_at", !.scaled = scale_gpx(mgr, job.sampled)]
    /\ UNCHANGED <<mgr, svg_paths, Snapshots, Transform, path_length_slider,
                   status_label, last, edits, Aside>>

job_center_gpx_at ==
    /\ job.pc = "center_gpx_at"
    /\ job' = [job EXCEPT !.pc = "done", !.placed = center_gpx_at(mgr, job.scaled)]
    /\ UNCHANGED <<mgr, svg_paths, Snapshots, Transform, path_length_slider,
                   status_label, last, edits, Aside>>

-----------------------------------------------------------------------------
(* The pane splitter: PaneManager, a QSplitter, and its ResizablePanes.     *)
(* A pane is its toggle button's checked state and the icon it shows; the   *)
(* splitter also holds the size of every pane.  Sizes are exact rationals:  *)
(* the width of the splitter's handles, the minimum sizes of the widgets    *)
(* and the rounding to whole pixels are left out.                           *)

RECURSIVE SumTo(_, _)
SumTo(sizes, n) == IF n = 0 THEN 0 ELSE sizes[n] + SumTo(sizes, n - 1)

\* QSplitter.setSizes: the splitter keeps its extent, and the panes share it
\* in the proportion of the sizes asked for
setSizes(self, sizes) ==
    [self EXCEPT !.sizes =
        [i \in DOMAIN sizes |-> R(self.extent * sizes[i], SumTo(sizes, Len(sizes)))]]

ResizablePane == [checked |-> FALSE, icon |-> "expand"]

set_normal_state(pane) == [pane EXCEPT !.checked = FALSE, !.icon = "expand"]

set_maximized_state(pane) == [pane EXCEPT !.checked = TRUE, !.icon = "collapse"]

\* PaneManager.__init__ with n panes in a splitter of the given extent, the
\* panes sharing it as sizes says
PaneManager(n, min_size, max_size, extent, sizes) ==
    setSizes([min_size |-> min_size, max_size |-> max_size, extent |-> extent,
              panes |-> [i \in 1..n |-> ResizablePane],
              sizes |-> [i \in 1..n |-> Zero]],
             sizes)

\* fault: a maximize request leaves the other panes as they are
handle_toggle_mode_leaving_others(self, sender, mode) ==
    IF mode = "normal"
    THEN setSizes([self EXCEPT !.panes = [i \in DOMAIN self.panes |->
                                             set_normal_state(self.panes[i])]],
                  [i \in DOMAIN self.panes |-> self.min_size])
    ELSE setSizes([self EXCEPT !.panes[sender] = set_maximized_state(self.panes[sender])],
                  [i \in DOMAIN self.panes |->
                      IF i = sender THEN self.max_size ELSE self.min_size])

\* PaneManager.handle_toggle_mode(mode) when pane sender has emitted toggleMode
handle_toggle_mode(self, sender, mode) ==
    IF mode = "normal"
    THEN setSizes([self EXCEPT !.panes = [i \in DOMAIN self.panes |->
                                             set_normal_state(self.panes[i])]],
                  [i \in DOMAIN self.panes |-> self.min_size])
    ELSE setSizes([self EXCEPT !.panes = [i \in DOMAIN self.panes |->
                                             IF i = sender
                                             THEN set_maximized_state(self.panes[i])
                                             ELSE set_normal_state(self.panes[i])]],
                  [i \in DOMAIN self.panes |->
                      IF i = sender THEN self.max_size ELSE self.min_size])

MaxClicks == 3

\* the window and the map page, which the panes' handlers do not touch
BesidePanes == <<mgr, job, svg_paths, Snapshots, Transform, path_length_slider,
                 status_label, page, drags>>

Clicked(op, arg) ==
    /\ last' = [op |-> op, arg |-> arg, raised |-> "none", before |-> splitter]
    /\ edits' = edits + 1

\* a click on pane sender's toggle button: the button, being checkable, flips,
\* and toggle_fullscreen emits the mode that its new state stands for
toggle_fullscreen(sender) ==
    /\ edits < MaxClicks
    /\ LET isChecked == ~splitter.panes[sender].checked
           mode == IF isChecked THEN "maximize" ELSE "normal"
           clicked == [splitter EXCEPT !.panes[sender].checked = isChecked,
                                       !.panes[sender].icon =
                                           IF isChecked THEN "collapse" ELSE "expand"]
       IN  /\ splitter' = handle_toggle_mode(clicked, sender, mode)
           /\ Clicked("toggle_fullscreen", [sender |-> sender, mode |-> mode])
    /\ UNCHANGED BesidePanes

HandleMoves == {-50, 50}

\* the user drags the splitter handle below pane i by a number of pixels
moveSplitter(i, by) ==
    /\ edits < MaxClicks
    /\ i + 1 \in DOMAIN splitter.panes
    /\ RLe(Zero, RAdd(splitter.sizes[i], RInt(by)))
    /\ RLe(Zero, RSub(splitter.sizes[i + 1], RInt(by)))
    /\ splitter' = [splitter EXCEPT !.sizes[i] = RAdd(@, RInt(by)),
                                    !.sizes[i + 1] = RSub(@, RInt(by))]
    /\ Clicked("moveSplitter", [handle |-> i, by |-> by])
    /\ UNCHANGED BesidePanes

-----------------------------------------------------------------------------
(* The map page.  runJavaScript hands a script to the page and returns; the *)
(* page evaluates the scripts it was handed in the order they came, between *)
(* its own events (the end of a drag of the handle), and the result of a    *)
(* script that has a callback is delivered to the window later, in order.   *)

PollScript == [code |-> "window.markerDragEnded", arg |-> <<>>]
ReadScript == [code |-> "JSON.stringify(window.gpxPolyline.getLatLngs())", arg |-> <<>>]
ResetScript == [code |-> "window.markerDragEnded = false;", arg |-> <<>>]
UpdateScript(coords) == [code |-> "window.updateGPX", arg |-> coords]

runJavaScript(pg, script) == [pg EXCEPT !.scripts = Append(@, script)]

Result(callback, value) == [callback |-> callback, value |-> value]

\* update_map_view on the initialized map: the points of gpx_data go to updateGPX
update_map_view(pg, gpx_data) ==
    runJavaScript(pg, UpdateScript([i \in DOMAIN gpx_data |->
                                       LatLng(gpx_data[i].lat, gpx_data[i].lon)]))

\* the page after the first update_map_view has drawn gpx_data and has loaded
InitializedPage(gpx_data) ==
    [markerDragEnded |-> FALSE,
     gpxPolyline |-> [i \in DOMAIN gpx_data |-> LatLng(gpx_data[i].lat, gpx_data[i].lon)],
     scripts |-> <<>>, results |-> <<>>, polls |-> 0]

MaxPolls == 2
MaxDrags == 2

\* the window and the panes apart from the page
BesidePage == <<mgr, job, svg_paths, Snapshots, Transform, path_length_slider,
                status_label, last, edits, splitter>>

\* the timer fires: poll_marker_drag_end
poll_marker_drag_end ==
    /\ page.polls < MaxPolls
    /\ page' = runJavaScript([page EXCEPT !.polls = @ + 1], PollScript)
    /\ UNCHANGED <<BesidePage, drags>>

\* the page evaluates the script at the head of its queue
page_evaluates ==
    /\ page.scripts # <<>>
    /\ LET script == Head(page.scripts)
           rest == [page EXCEPT !.scripts = Tail(@)]
       IN  page' =
              IF script = PollScript
              THEN [rest EXCEPT !.results =
                       Append(@, Result("handle_marker_drag_end", page.markerDragEnded))]
              ELSE IF script = ReadScript
              THEN [rest EXCEPT !.results =
                       Append(@, Result("translate_gpx_with_marker",
                                        JsList(page.gpxPolyline)))]
              ELSE IF script = ResetScript
              THEN [rest EXCEPT !.markerDragEnded = FALSE]
              ELSE [rest EXCEPT !.gpxPolyline = script.arg]
    /\ UNCHANGED <<BesidePage, drags>>

\* the user drags the handle and lets go: the drag handler has moved every
\* vertex of the polyline by the handle's offset, dragend sets the flag
handle_dragend(delta) ==
    /\ Len(drags) < MaxDrags
    /\ page' = [page EXCEPT
                   !.gpxPolyline = [i \in DOMAIN @ |->
                                       LatLng(RAdd(@[i].lat, delta.lat),
                                              RAdd(@[i].lng, delta.lng))],
                   !.markerDragEnded = TRUE]
    /\ drags' = Append(drags, delta)
    /\ UNCHANGED BesidePage

\* the result of a poll comes back: handle_marker_drag_end(dragEnded)
handle_marker_drag_end ==
    /\ page.results # <<>>
    /\ Head(page.results).callback = "handle_marker_drag_end"
    /\ LET dragEnded == Head(page.results).value
           rest == [page EXCEPT !.results = Tail(@)]
       IN  page' = IF dragEnded
                   THEN runJavaScript(runJavaScript(rest, ReadScript), ResetScript)
                   ELSE rest
    /\ UNCHANGED <<BesidePage, drags>>

\* the polyline read comes back: translate_gpx_with_marker(js_result), whose
\* update_final_gpx ends in reload_gui and update_map_view
translate_gpx_with_marker_js_cb ==
    /\ page.results # <<>>
    /\ Head(page.results).callback = "translate_gpx_with_marker"
    /\ translate_gpx_with_marker(Head(page.results).value)
    /\ page' = IF translate_gpx_with_marker_raises(Head(page.results).value) # "none"
               THEN [page EXCEPT !.results = Tail(@)]
               ELSE update_map_view([page EXCEPT !.results = Tail(@)], gpx_data_3_final')
    /\ UNCHANGED <<splitter, drags>>

\* the rotation slider is moved: update_final_gpx ends in reload_gui and
\* update_map_view
update_rotation_from_slider_and_map(value) ==
    /\ update_rotation_from_slider(value)
    /\ page' = update_map_view(page, gpx_data_3_final')
    /\ UNCHANGED <<splitter, drags>>

-----------------------------------------------------------------------------
(* The specifications.                                                     *)

\* MainWindow.__init__ with no drawing_test.svg in the working directory
InitWindow ==
    /\ svg_paths = NoPaths
    /\ gpx_data_1_original = NoGpx
    /\ gpx_data_2_scaled_translated = NoGpx
    /\ gpx_data_3_final = NoGpx
    /\ rotation = 0
    /\ hor_scale = One
    /\ path_length_slider = 1000
    /\ rotation_slider = 0
    /\ stretch_slider = 100
    /\ status_label = <<"Error loading SVG", "FileNotFoundError">>
    /\ last = [op |-> "__init__", arg |-> "drawing_test.svg", raised |-> "none",
               before |-> [original |-> NoGpx, working |-> NoGpx, final |-> NoGpx,
                           rotation |-> 0, hor_scale |-> One]]
    /\ edits = 0

\* MainWindow.__init__: the plot pane over the map pane, 300 to 700, in a
\* window 1000 high
MainWindowSplitter == PaneManager(2, 100, 900, 1000, <<300, 700>>)

\* the map page before anything is drawn: no page
NoPage == [markerDragEnded |-> FALSE, gpxPolyline |-> <<>>, scripts |-> <<>>,
           results |-> <<>>, polls |-> 0]

InitAside ==
    /\ splitter = MainWindowSplitter
    /\ page = NoPage
    /\ drags = <<>>

Init ==
    /\ mgr = DefaultManager
    /\ job = IdleJob
    /\ InitWindow
    /\ InitAside

Next ==
    \/ UNCHANGED Aside /\ \E file_name \in OpenableSvg : load_svg(file_name)
    \/ UNCHANGED Aside /\ \E file_name \in OpenableGpx : load_gpx(file_name)
    \/ UNCHANGED Aside /\ \E v \in LengthSliderValues : update_path_length_from_slider(v)
    \/ UNCHANGED Aside /\ \E text \in TypedLengths : update_path_length_from_input(text)
    \/ UNCHANGED Aside /\ \E v \in RotationSliderValues : update_rotation_from_slider(v)
    \/ UNCHANGED Aside /\ \E text \in TypedRotations : update_rotation_from_input(text)
    \/ UNCHANGED Aside /\ \E v \in StretchSliderValues : update_stretch_from_slider(v)
    \/ UNCHANGED Aside /\ \E text \in TypedStretches : update_stretch_from_input(text)
    \/ UNCHANGED Aside /\ \E map_center \in MapCenters : move_path_to_center_js_cb(map_center)
    \/ UNCHANGED Aside /\ \E js_result \in DragResults : translate_gpx_with_marker(js_result)

Spec == Init /\ [][Next]_vars

MaxInterp == 3

Managers ==
    {SvgGpxManager(t, c[1], c[2], n) :
        t \in {RInt(50), RInt(100)},
        c \in {<<Zero, Zero>>, <<RInt(60), RInt(24)>>},
        n \in 1..MaxInterp}

InitSvg ==
    /\ mgr \in Managers
    /\ job \in {[IdleJob EXCEPT !.pc = "load_svg", !.file = f] :
                   f \in SvgNames \cup {"missing.svg"}}
    /\ InitWindow
    /\ InitAside

NextSvg ==
    \/ job_load_svg
    \/ job_convert_svg_to_gpx
    \/ job_scale_gpx
    \/ job_center_gpx_at

SpecSvg == InitSvg /\ [][NextSvg]_vars

(* The two pure methods of MainWindow, fix_lat_lon_scaling and              *)
(* gpx_transform_and_rotate, called on a track: final holds the track       *)
(* returned by the last call, working the track that call was given.        *)

MaxCalls == 2

TrackInputs == {GpxFiles[n] : n \in GpxNames}
Rotations == {-90, 0, 30, 90, 180}
HorScales == {R(1, 2), One, RInt(2)}

InitTrack ==
    /\ mgr = DefaultManager
    /\ job = IdleJob
    /\ svg_paths = NoPaths
    /\ gpx_data_1_original \in TrackInputs
    /\ gpx_data_2_scaled_translated = gpx_data_1_original
    /\ gpx_data_3_final = gpx_data_1_original
    /\ rotation \in Rotations
    /\ hor_scale \in HorScales
    /\ path_length_slider = 1000
    /\ rotation_slider = rotation
    /\ stretch_slider = RMul(RInt(100), hor_scale)[1]
    /\ status_label = <<"Loaded GPX", "">>
    /\ last = [op |-> "__init__", arg |-> "", raised |-> "none",
               before |-> [original |-> NoGpx, working |-> NoGpx, final |-> NoGpx,
                           rotation |-> 0, hor_scale |-> One]]
    /\ edits = 0
    /\ InitAside

call_fix_lat_lon_scaling(reversed) ==
    /\ edits < MaxCalls
    /\ Ran("fix_lat_lon_scaling", reversed, fix_lat_lon_scaling_raises(gpx_data_3_final))
    /\ gpx_data_2_scaled_translated' = gpx_data_3_final
    /\ gpx_data_3_final' =
          IF fix_lat_lon_scaling_raises(gpx_data_3_final) # "none" THEN gpx_data_3_final
          ELSE fix_lat_lon_scaling(gpx_data_3_final, reversed)
    /\ UNCHANGED <<mgr, job, svg_paths, gpx_data_1_original, Transform,
                   path_length_slider, status_label>>

call_gpx_transform_and_rotate ==
    /\ edits < MaxCalls
    /\ Ran("gpx_transform_and_rotate", Self,
           gpx_transform_and_rotate_raises(gpx_data_3_final))
    /\ gpx_data_2_scaled_translated' = gpx_data_3_final
    /\ gpx_data_3_final' =
          IF gpx_transform_and_rotate_raises(gpx_data_3_final) # "none" THEN gpx_data_3_final
          ELSE gpx_transform_and_rotate(Self, gpx_data_3_final)
    /\ UNCHANGED <<mgr, job, svg_paths, gpx_data_1_original, Transform,
                   path_length_slider, status_label>>

NextTrack ==
    \/ UNCHANGED Aside /\ \E reversed \in BOOLEAN : call_fix_lat_lon_scaling(reversed)
    \/ UNCHANGED Aside /\ call_gpx_transform_and_rotate

SpecTrack == InitTrack /\ [][NextTrack]_vars

(* The window with a track file loaded and the map drawn: the poll timer,  *)
(* the page, the callbacks, the user dragging the handle and moving the     *)
(* rotation slider.                                                         *)

DragFiles == {"fork"}

InitDrag ==
    /\ mgr = DefaultManager
    /\ job = IdleJob
    /\ svg_paths = NoPaths
    /\ gpx_data_1_original \in {fix_lat_lon_scaling(GpxFiles[f], TRUE) : f \in DragFiles}
    /\ gpx_data_2_scaled_translated = gpx_data_1_original
    /\ gpx_data_3_final = update_final_gpx([rotation |-> 0, hor_scale |-> One],
                                           gpx_data_1_original, gpx_data_1_original)
    /\ rotation = 0
    /\ hor_scale = One
    /\ path_length_slider = 1000
    /\ rotation_slider = 0
    /\ stretch_slider = 100
    /\ status_label = <<"Loaded GPX", "">>
    /\ last = [op |-> "load_gpx", arg |-> "", raised |-> "none",
               before |-> [original |-> NoGpx, working |-> NoGpx, final |-> NoGpx,
                           rotation |-> 0, hor_scale |-> One]]
    /\ edits = 0
    /\ splitter = MainWindowSplitter
    /\ page = InitializedPage(gpx_data_3_final)
    /\ drags = <<>>

NextDrag ==
    \/ poll_marker_drag_end
    \/ page_evaluates
    \/ \E delta \in DragDeltas : handle_dragend(delta)
    \/ handle_marker_drag_end
    \/ translate_gpx_with_marker_js_cb
    \/ \E v \in RotationSliderValues : update_rotation_from_slider_and_map(v)

SpecDrag == InitDrag /\ [][NextDrag]_vars

(* The pane splitter on its own: clicks on the panes' toggle buttons and    *)
(* drags of the splitter's handles, for two or three panes.                 *)

PaneCounts == {2, 3}
PaneSizes == {<<100, 900>>, <<200, 600>>}
Extents == {600, 1000, 1100}

InitPane ==
    /\ mgr = DefaultManager
    /\ job = IdleJob
    /\ InitWindow
    /\ page = NoPage
    /\ drags = <<>>
    /\ splitter \in
          {PaneManager(n, m[1], m[2], h, IF n = 2 THEN <<300, 700>> ELSE [i \in 1..n |-> 1]) :
              n \in PaneCounts, m \in PaneSizes, h \in Extents}

NextPane ==
    \/ \E sender \in DOMAIN splitter.panes : toggle_fullscreen(sender)
    \/ \E i \in DOMAIN splitter.panes, by \in HandleMoves : moveSplitter(i, by)

SpecPane == InitPane /\ [][NextPane]_vars

-----------------------------------------------------------------------------
(* Properties of the editing state machine (Spec).                         *)

TransformOps == {"update_rotation_from_slider", "update_rotation_from_input",
                 "update_stretch_from_slider", "update_stretch_from_input"}
ResizeOps == {"update_path_length_from_slider", "update_path_length_from_input"}
MoveOps == {"move_path_to_center_js_cb", "translate_gpx_with_marker"}
LoadOps == {"load_svg", "load_gpx"}

IsTrack(gpx) == gpx # NoGpx

\* b is a with every point moved by one common (lat, lon) delta
IsTranslation(a, b) ==
    /\ DOMAIN a = DOMAIN b
    /\ \A i \in DOMAIN a :
          /\ b[i].seg = a[i].seg
          /\ RSub(b[i].lat, a[i].lat) = RSub(b[1].lat, a[1].lat)
          /\ RSub(b[i].lon, a[i].lon) = RSub(b[1].lon, a[1].lon)

\* every offset between two points of a is the offset between the same two points of b
OffsetsKept(a, b) ==
    /\ DOMAIN a = DOMAIN b
    /\ \A i, j \in DOMAIN a :
          /\ RSub(b[i].lat, b[j].lat) = RSub(a[i].lat, a[j].lat)
          /\ RSub(b[i].lon, b[j].lon) = RSub(a[i].lon, a[j].lon)

\* the factors by which some non-zero coordinate offset of a has grown in b
ScaleRatios(a, b) ==
    {RDiv(RSub(b[i].lat, b[j].lat), RSub(a[i].lat, a[j].lat)) :
        <<i, j>> \in {p \in (DOMAIN a) \X (DOMAIN a) : a[p[1]].lat # a[p[2]].lat}}
    \cup {RDiv(RSub(b[i].lon, b[j].lon), RSub(a[i].lon, a[j].lon)) :
        <<i, j>> \in {p \in (DOMAIN a) \X (DOMAIN a) : a[p[1]].lon # a[p[2]].lon}}
    \cup {One}

\* b is a scaled about a's centroid by one factor, the same for latitude and longitude
IsUniformScale(a, b) ==
    /\ DOMAIN a = DOMAIN b
    /\ a # <<>>
    /\ MeanLat(b) = MeanLat(a)
    /\ MeanLon(b) = MeanLon(a)
    /\ \E k \in ScaleRatios(a, b) :
          \A i \in DOMAIN a :
             /\ b[i].seg = a[i].seg
             /\ RSub(b[i].lat, MeanLat(a)) = RMul(k, RSub(a[i].lat, MeanLat(a)))
             /\ RSub(b[i].lon, MeanLon(a)) = RMul(k, RSub(a[i].lon, MeanLon(a)))

\* Correction(Affine(working)) for a rotation and a stretch
FinalOf(working, rot, stretch) ==
    fix_lat_lon_scaling(
        gpx_transform_and_rotate([rotation |-> rot, hor_scale |-> stretch], working), FALSE)

\* Correction(Affine(Correction^-1(working))) for the current rotation and stretch
CorrectionRemovedFirst(working) ==
    fix_lat_lon_scaling(
        gpx_transform_and_rotate(Self, fix_lat_lon_scaling(working, TRUE)), FALSE)

(* C1, as stated: whenever a track is loaded, final equals                  *)
(* Correction(Affine(Correction^-1(working))) for the current rotation and  *)
(* stretch.                                                                 *)
C1_FinalRemovesCorrectionFirst ==
    IsTrack(gpx_data_2_scaled_translated) =>
        gpx_data_3_final = CorrectionRemovedFirst(gpx_data_2_scaled_translated)

(* C1, amended: whenever a track is loaded, after any sequence of edits,    *)
(* final equals Correction(Affine(working)) for the current rotation and    *)
(* stretch; working is not de-corrected on the way (the inverse correction  *)
(* is applied once, by load_gpx, to the track read from the file).          *)
C1_FinalIsCorrectionOfAffine ==
    IsTrack(gpx_data_2_scaled_translated) =>
        gpx_data_3_final =
            fix_lat_lon_scaling(
                gpx_transform_and_rotate(Self, gpx_data_2_scaled_translated), FALSE)

\* a rotated or stretched track has been moved or resized, and final is the corrected
\* affine image of working, which is not what removing the correction first would give
C1_Witness ==
    /\ IsTrack(gpx_data_2_scaled_translated)
    /\ last.op \in MoveOps \cup ResizeOps
    /\ gpx_data_2_scaled_translated # last.before.working
    /\ (rotation # 0 \/ hor_scale # One)
    /\ gpx_data_3_final # gpx_data_2_scaled_translated
    /\ gpx_data_3_final # CorrectionRemovedFirst(gpx_data_2_scaled_translated)

(* C2: a rotation or stretch change, from the slider or the text input,     *)
(* leaves working as it was; working only changes in a load, a resize to    *)
(* length, a move to centre or a marker drag, and a resize leaves a uniform *)
(* scale of the previous working, a move or a drag a translation of it.     *)
C2_WorkingOnlyScaledOrTranslated ==
    LET was == last.before.working
        now == gpx_data_2_scaled_translated
    IN  /\ last.op \in TransformOps => now = was
        /\ now # was => last.op \in LoadOps \cup ResizeOps \cup MoveOps
        /\ (last.op \in ResizeOps /\ now # was) => IsUniformScale(was, now)
        /\ (last.op \in MoveOps /\ now # was) => IsTranslation(was, now)

\* a typed rotation has turned the final track of a loaded drawing
C2_Witness ==
    /\ last.op = "update_rotation_from_input"
    /\ IsTrack(gpx_data_2_scaled_translated)
    /\ Len(gpx_data_2_scaled_translated) >= 2
    /\ rotation # last.before.rotation
    /\ gpx_data_3_final # last.before.final
    /\ gpx_data_2_scaled_translated = last.before.working

(* C3: original changes only in a load_svg or load_gpx that succeeds; no    *)
(* resize, move to centre, marker drag, rotation or stretch changes it.     *)
C3_OriginalImmutableBetweenLoads ==
    gpx_data_1_original # last.before.original =>
        /\ last.op \in LoadOps
        /\ last.arg # ""
        /\ status_label \in {<<"Loaded SVG", last.arg>>, <<"Loaded GPX", last.arg>>}

\* a resize has scaled working away from the original, which is as it was
C3_Witness ==
    /\ last.op = "update_path_length_from_slider"
    /\ IsTrack(gpx_data_1_original)
    /\ gpx_data_2_scaled_translated # last.before.working
    /\ gpx_data_1_original = last.before.original
    /\ gpx_data_1_original # gpx_data_2_scaled_translated

(* C4: final is a function of working, rotation and stretch alone, so two   *)
(* histories that end with the same three end with the same final; a        *)
(* rotation or stretch change gives the final of the value just set and of  *)
(* the working and the other parameter it found, whatever rotation, stretch *)
(* and final were there before.                                             *)
C4_FinalNeverPatched ==
    LET b == last.before
    IN  IsTrack(gpx_data_2_scaled_translated) =>
        /\ gpx_data_3_final = FinalOf(gpx_data_2_scaled_translated, rotation, hor_scale)
        /\ last.op = "update_rotation_from_slider" =>
              gpx_data_3_final = FinalOf(b.working, last.arg, b.hor_scale)
        /\ (last.op = "update_rotation_from_input" /\ last.arg.kind = "number") =>
              gpx_data_3_final = FinalOf(b.working, last.arg.val, b.hor_scale)
        /\ last.op = "update_stretch_from_slider" =>
              gpx_data_3_final = FinalOf(b.working, b.rotation, R(last.arg, 100))
        /\ (last.op = "update_stretch_from_input" /\ last.arg.kind = "number") =>
              gpx_data_3_final = FinalOf(b.working, b.rotation, R(last.arg.val, 100))

\* the rotation was set to a and then to b, both away from 0
C4_Witness ==
    /\ last.op = "update_rotation_from_slider"
    /\ IsTrack(gpx_data_2_scaled_translated)
    /\ Len(gpx_data_2_scaled_translated) >= 2
    /\ last.before.rotation # 0
    /\ rotation # 0
    /\ rotation # last.before.rotation
    /\ gpx_data_3_final # last.before.final

(* C9: a recentre moves every point of a non-empty track by one common      *)
(* delta, keeps every offset between two points, and leaves the mean        *)
(* latitude and the mean longitude at the target: center_gpx_at in the      *)
(* placement a load_svg runs, and move_path_to_center during editing.       *)
C9_RecentreIsCommonShift ==
    /\ (/\ last.op = "load_svg"
        /\ last.arg # ""
        /\ status_label = <<"Loaded SVG", last.arg>>
        /\ gpx_data_1_original # <<>>) =>
           LET scaled == scale_gpx(mgr, convert_svg_to_gpx(mgr, svg_paths))
           IN  /\ IsTranslation(scaled, gpx_data_1_original)
               /\ OffsetsKept(scaled, gpx_data_1_original)
               /\ MeanLat(gpx_data_1_original) = mgr.center_lat
               /\ MeanLon(gpx_data_1_original) = mgr.center_lon
    /\ (/\ last.op = "move_path_to_center_js_cb"
        /\ last.arg # None
        /\ IsTrack(last.before.working)
        /\ last.before.working # <<>>) =>
           /\ IsTranslation(last.before.working, gpx_data_2_scaled_translated)
           /\ OffsetsKept(last.before.working, gpx_data_2_scaled_translated)
           /\ MeanLat(gpx_data_2_scaled_translated) = last.arg.lat
           /\ MeanLon(gpx_data_2_scaled_translated) = last.arg.lng

\* a track of several points has been moved to the map centre (30, -10)
C9_Witness ==
    /\ last.op = "move_path_to_center_js_cb"
    /\ last.arg = LatLng(RInt(30), RInt(-10))
    /\ IsTrack(last.before.working)
    /\ Len(gpx_data_2_scaled_translated) >= 2
    /\ gpx_data_2_scaled_translated # last.before.working
    /\ gpx_data_2_scaled_translated[1] # gpx_data_2_scaled_translated[2]

\* the target length of the resize that ran last, in km
RequestedLengthKm ==
    IF last.op = "update_path_length_from_slider" THEN len_slider_to_km(last.arg)
    ELSE last.arg.val

(* C10: a resize whose target length is <= 0, from the slider or the text   *)
(* input, or whose working track has length 0, leaves working and final as  *)
(* they were and raises no error.                                           *)
C10_DegenerateResizeIsSilentNoOp ==
    (/\ last.op \in ResizeOps
     /\ last.op = "update_path_length_from_input" => last.arg.kind = "number"
     /\ \/ RLe(RequestedLengthKm, Zero)
        \/ /\ IsTrack(last.before.working)
           /\ calculate_gpx_length_km(last.before.working) = Zero) =>
        /\ gpx_data_2_scaled_translated = last.before.working
        /\ gpx_data_3_final = last.before.final
        /\ last.raised = "none"

-----------------------------------------------------------------------------
(* Properties of the sampler and of the placement (SpecSvg).               *)

\* the segments of a drawing in path order and, inside a path, in segment order
RECURSIVE SegmentsTo(_, _)
SegmentsTo(paths, k) == IF k = 0 THEN <<>> ELSE SegmentsTo(paths, k - 1) \o paths[k]

Segments == SegmentsTo(job.svg_paths, Len(job.svg_paths))

\* convert_svg_to_gpx has run on the drawing of the job
Sampled == job.pc \in {"scale_gpx", "center_gpx_at", "done", "raised"} /\ IsTrack(job.sampled)

Beziers == {"QuadraticBezier", "CubicBezier"}

\* how many points a segment contributes
PointCount(seg) ==
    IF seg.type = "Line" THEN 2
    ELSE IF seg.type \in Beziers THEN mgr.interpolation_points
    ELSE 0

\* how many points the segments before the k-th contribute
RECURSIVE PointsBefore(_, _)
PointsBefore(segs, k) ==
    IF k = 1 THEN 0 ELSE PointsBefore(segs, k - 1) + PointCount(segs[k - 1])

\* the points of the sampled track that the k-th segment contributed
PointsOfSegment(k) ==
    SubSeq(job.sampled, PointsBefore(Segments, k) + 1,
           PointsBefore(Segments, k) + PointCount(Segments[k]))

\* the track point (latitude, longitude) = (-y, x) of a drawing point
Flipped(p) == [lat |-> <<-p.y[1], p.y[2]>>, lon |-> p.x, seg |-> <<1, 1>>]

(* C5: every Line segment contributes exactly 2 points to the sampled       *)
(* track, (-start.y, start.x) and then (-end.y, end.x); a drawing of Lines  *)
(* alone has twice as many points as segments.                              *)
C5_LineGivesItsTwoEndPoints ==
    Sampled =>
        /\ \A k \in DOMAIN Segments :
              Segments[k].type = "Line" =>
                  PointsOfSegment(k) = <<Flipped(Segments[k].start), Flipped(Segments[k].end)>>
        /\ (\A k \in DOMAIN Segments : Segments[k].type = "Line") =>
              Len(job.sampled) = 2 * Len(Segments)

\* a drawing with a Line that ends away from y = 0 and from its start has been sampled
C5_Witness ==
    /\ Sampled
    /\ \E k \in DOMAIN Segments :
          /\ Segments[k].type = "Line"
          /\ Segments[k].end.y # Zero
          /\ Segments[k].end # Segments[k].start
          /\ PointsOfSegment(k)[2].lat = RNeg(Segments[k].end.y)

\* a + t (b - a)
Lerp(a, b, t) == RAdd(a, RMul(t, RSub(b, a)))

\* de Casteljau's construction of the point of a curve at parameter t, one coordinate
Casteljau2(p0, p1, p2, t) == Lerp(Lerp(p0, p1, t), Lerp(p1, p2, t), t)
Casteljau3(p0, p1, p2, p3, t) == Lerp(Casteljau2(p0, p1, p2, t), Casteljau2(p1, p2, p3, t), t)

CurvePoint(seg, t) ==
    IF seg.type = "QuadraticBezier"
    THEN XY(Casteljau2(seg.start.x, seg.control.x, seg.end.x, t),
            Casteljau2(seg.start.y, seg.control.y, seg.end.y, t))
    ELSE XY(Casteljau3(seg.start.x, seg.control1.x, seg.control2.x, seg.end.x, t),
            Casteljau3(seg.start.y, seg.control1.y, seg.control2.y, seg.end.y, t))

(* C6, as stated: for N >= 1 every Bezier segment contributes exactly N     *)
(* points, the first its start (-start.y, start.x) and the last its end     *)
(* (-end.y, end.x).                                                         *)
C6_BezierEndsAtItsEndForEveryN ==
    (Sampled /\ mgr.interpolation_points >= 1) =>
        \A k \in DOMAIN Segments :
            Segments[k].type \in Beziers =>
                LET pts == PointsOfSegment(k)
                IN  /\ Len(pts) = mgr.interpolation_points
                    /\ pts[1] = Flipped(Segments[k].start)
                    /\ pts[Len(pts)] = Flipped(Segments[k].end)

(* C6, amended: for N >= 2 every Bezier segment contributes exactly N       *)
(* points, the i-th the curve's point at t = (i-1)/(N-1), so the first is   *)
(* its start and the last its end; for N = 1 it contributes one point, its  *)
(* start (t = 0), and its end is not sampled.                               *)
C6_BezierSampledEvenly ==
    (Sampled /\ mgr.interpolation_points >= 1) =>
        \A k \in DOMAIN Segments :
            Segments[k].type \in Beziers =>
                LET pts == PointsOfSegment(k)
                    N == mgr.interpolation_points
                IN  /\ Len(pts) = N
                    /\ pts[1] = Flipped(Segments[k].start)
                    /\ N >= 2 =>
                          /\ pts[N] = Flipped(Segments[k].end)
                          /\ \A i \in 1..N :
                                pts[i] = Flipped(CurvePoint(Segments[k], R(i - 1, N - 1)))

\* with N = 1 a curve that ends away from its start has been sampled: one point, the start
C6_Witness ==
    /\ Sampled
    /\ mgr.interpolation_points = 1
    /\ \E k \in DOMAIN Segments :
          /\ Segments[k].type \in Beziers
          /\ Segments[k].start # Segments[k].end
          /\ PointsOfSegment(k) = <<Flipped(Segments[k].start)>>

\* what one segment contributes
PointsFor(seg) ==
    IF seg.type = "Line" THEN <<Flipped(seg.start), Flipped(seg.end)>>
    ELSE IF seg.type \in Beziers THEN process_bezier(mgr, seg, <<>>)
    ELSE <<>>

\* the contributions of the first k segments, one after the other
RECURSIVE Concatenation(_, _)
Concatenation(segs, k) ==
    IF k = 0 THEN <<>> ELSE Concatenation(segs, k - 1) \o PointsFor(segs[k])

(* C7: convert_svg_to_gpx raises nothing and gives one track segment with   *)
(* the points of every segment of the drawing, in path order and segment    *)
(* order: 2 for a Line, N for a Bezier, none for another type; where a Line *)
(* starts at the end of the Line before it, that point is there twice.      *)
C7_SampledIsConcatenation ==
    (job.pc \in {"scale_gpx", "center_gpx_at", "done"}
        \/ (job.pc = "raised" /\ job.raised \in {"ValueError", "ZeroDivisionError"})) =>
        /\ IsTrack(job.sampled)
        /\ job.sampled = Concatenation(Segments, Len(Segments))
        /\ \A i \in DOMAIN job.sampled : job.sampled[i].seg = <<1, 1>>
        /\ \A k \in DOMAIN Segments :
              (/\ k > 1
               /\ Segments[k].type = "Line"
               /\ Segments[k - 1].type = "Line"
               /\ Segments[k].start = Segments[k - 1].end) =>
                  /\ job.sampled[PointsBefore(Segments, k)] = Flipped(Segments[k].start)
                  /\ job.sampled[PointsBefore(Segments, k) + 1] = Flipped(Segments[k].start)

\* two Lines around an Arc have been sampled: four points, none for the Arc
C7_Witness ==
    /\ job.pc = "scale_gpx"
    /\ job.file = "mixed"
    /\ Len(job.sampled) = 4
    /\ job.sampled[2] # job.sampled[3]

\* the bounding box of the placed track: its extent in degrees, and its sides measured
\* geodesically along its southern and its western edge
PlacedMinLat == min(latitudes(job.placed))
PlacedHeightDeg == RSub(max(latitudes(job.placed)), PlacedMinLat)
PlacedWidthDeg == RSub(max(longitudes(job.placed)), min(longitudes(job.placed)))
PlacedHeightMeters ==
    geodesic_meters(PlacedMinLat, min(longitudes(job.placed)),
                    max(latitudes(job.placed)), min(longitudes(job.placed)))
PlacedWidthMeters ==
    geodesic_meters(PlacedMinLat, min(longitudes(job.placed)),
                    PlacedMinLat, max(longitudes(job.placed)))

(* C8, as stated: the longest side of the placed track's bounding box,      *)
(* measured geodesically where the track is placed, is the target size      *)
(* within 1%, for every centre latitude.                                    *)
C8_LongestSideIsTargetWherePlaced ==
    job.pc = "done" =>
        RLe(RMul(RInt(100),
                 RAbs(RSub(RMax(PlacedHeightMeters, PlacedWidthMeters),
                           mgr.target_size_meters))),
            mgr.target_size_meters)

(* C8, amended: the longer side of the placed track's bounding box in       *)
(* degrees, at the equator's metres per degree, is the target size S: the   *)
(* size is set where scale_gpx measures it, next to (0, 0), and the move to *)
(* the centre does not rescale longitudes.  Measured where the track is     *)
(* placed, the height is S if the height is the longer side in degrees,     *)
(* and the width is S * cos(latitude) if the width is.                      *)
C8_LongestSideIsTargetAtEquator ==
    job.pc = "done" =>
        /\ RMul(MetersPerDegree, RMax(PlacedHeightDeg, PlacedWidthDeg))
              = mgr.target_size_meters
        /\ RLe(PlacedWidthDeg, PlacedHeightDeg) =>
              PlacedHeightMeters = mgr.target_size_meters
        /\ RLe(PlacedHeightDeg, PlacedWidthDeg) =>
              PlacedWidthMeters = RMul(mgr.target_size_meters, CosDeg(PlacedMinLat))

\* the Line from (0,0) to (10,0) placed at 50 m and centred at latitude 60: two points
\* at latitude 60, 25 m apart
C8_Witness ==
    /\ job.pc = "done"
    /\ job.file = "hline"
    /\ mgr.target_size_meters = RInt(50)
    /\ mgr.center_lat = RInt(60)
    /\ Len(job.placed) = 2
    /\ \A i \in DOMAIN job.placed : job.placed[i].lat = RInt(60)
    /\ MeanLon(job.placed) = mgr.center_lon
    /\ PlacedWidthMeters = RInt(25)

-----------------------------------------------------------------------------
(* Properties of the resize, of the correction and of the affine stage     *)
(* (Spec).                                                                 *)

\* the resize that ran last found a track and changed it
Resized ==
    /\ last.op \in ResizeOps
    /\ IsTrack(last.before.working)
    /\ gpx_data_2_scaled_translated # last.before.working

(* C11: a resize multiplies every point's offset from the arithmetic-mean   *)
(* centroid of working by one factor, target length over current length,    *)
(* and leaves the centroid where it was, so a sequence of resizes does not  *)
(* move it.                                                                 *)
C11_ResizeKeepsCentroid ==
    (last.op \in ResizeOps /\ IsTrack(last.before.working)
        /\ last.before.working # <<>>) =>
        LET was == last.before.working
            now == gpx_data_2_scaled_translated
            k == RDiv(RequestedLengthKm, calculate_gpx_length_km(was))
        IN  /\ MeanLat(now) = MeanLat(was)
            /\ MeanLon(now) = MeanLon(was)
            /\ now # was =>
                  \A i \in DOMAIN was :
                     /\ RSub(now[i].lat, MeanLat(was)) = RMul(k, RSub(was[i].lat, MeanLat(was)))
                     /\ RSub(now[i].lon, MeanLon(was)) = RMul(k, RSub(was[i].lon, MeanLon(was)))

\* a second resize in a row: working differs from what the first left and from the
\* original, and its centroid is still the original's
C11_Witness ==
    /\ Resized
    /\ IsTrack(gpx_data_1_original)
    /\ last.before.working # gpx_data_1_original
    /\ gpx_data_2_scaled_translated # gpx_data_1_original
    /\ gpx_data_2_scaled_translated[1] # gpx_data_2_scaled_translated[Len(gpx_data_2_scaled_translated)]
    /\ MeanLat(gpx_data_2_scaled_translated) = MeanLat(gpx_data_1_original)
    /\ MeanLon(gpx_data_2_scaled_translated) = MeanLon(gpx_data_1_original)

\* the resize that ran last was asked for a positive length of a track of positive length
ResizeRequested ==
    /\ last.op \in ResizeOps
    /\ last.op = "update_path_length_from_input" => last.arg.kind = "number"
    /\ IsTrack(last.before.working)
    /\ RLt(Zero, RequestedLengthKm)
    /\ RLt(Zero, calculate_gpx_length_km(last.before.working))

(* C12: after a resize of a track of positive length to a target L > 0 km,  *)
(* the geodesic length of working is L km within 0.1%.                      *)
C12_ResizedLengthIsTarget ==
    ResizeRequested =>
        RLe(RMul(RInt(1000),
                 RAbs(RSub(calculate_gpx_length_km(gpx_data_2_scaled_translated),
                           RequestedLengthKm))),
            RequestedLengthKm)

-----------------------------------------------------------------------------
(* Properties of the correction and of the affine stage as functions        *)
(* (SpecTrack).                                                             *)

\* the track the last call returned, and the one it was given
Returned == gpx_data_3_final
Given == last.before.final

Called(op) == last.op = op

\* the inputs of C13: a track with points whose mean latitude is off the poles
AwayFromPoles(gpx) == gpx # <<>> /\ RLt(RAbs(MeanLat(gpx)), RInt(89))

SameCentre(a, b) == MeanLat(a) = MeanLat(b) /\ MeanLon(a) = MeanLon(b)

(* C13: for a non-empty track T with |mean latitude| < 89, the correction   *)
(* followed by the reversed correction gives T back, and so does the        *)
(* reversed correction followed by the correction; the second call sees the *)
(* mean latitude and mean longitude the first one saw.                      *)
C13_CorrectionRoundTrips ==
    AwayFromPoles(Returned) =>
        /\ fix_lat_lon_scaling(fix_lat_lon_scaling(Returned, FALSE), TRUE) = Returned
        /\ fix_lat_lon_scaling(fix_lat_lon_scaling(Returned, TRUE), FALSE) = Returned
        /\ SameCentre(fix_lat_lon_scaling(Returned, FALSE), Returned)
        /\ SameCentre(fix_lat_lon_scaling(Returned, TRUE), Returned)

\* the reversed correction has just undone a correction that moved points
C13_Witness ==
    /\ Called("fix_lat_lon_scaling")
    /\ last.arg = TRUE
    /\ AwayFromPoles(last.before.working)
    /\ Given = fix_lat_lon_scaling(last.before.working, FALSE)
    /\ Given # last.before.working
    /\ Returned = last.before.working

\* every longitude offset from the mean longitude of was is multiplied by f
LonOffsetsScaled(was, now, f) ==
    \A i \in DOMAIN was :
        RSub(now[i].lon, MeanLon(was)) = RMul(f, RSub(was[i].lon, MeanLon(was)))

(* C14: the correction, in either direction, changes longitudes only: the   *)
(* points keep their number, order, latitude and segment, the mean          *)
(* longitude is kept, and every longitude offset from the mean longitude is *)
(* multiplied by one common factor.                                         *)
C14_CorrectionMovesLongitudesOnly ==
    (Called("fix_lat_lon_scaling") /\ Given # <<>>) =>
        /\ Len(Returned) = Len(Given)
        /\ \A i \in DOMAIN Given :
              Returned[i].lat = Given[i].lat /\ Returned[i].seg = Given[i].seg
        /\ MeanLon(Returned) = MeanLon(Given)
        /\ \E f \in {CosDeg(MeanLat(Given)), RDiv(One, CosDeg(MeanLat(Given)))} :
              LonOffsetsScaled(Given, Returned, f)

\* a correction has moved the longitudes of a track of several points
C14_Witness ==
    /\ Called("fix_lat_lon_scaling")
    /\ Len(Given) >= 3
    /\ Returned # Given
    /\ MeanLon(Given) # Zero
    /\ \E i \in DOMAIN Given : Given[i].lat # MeanLat(Given)

(* C15: on a track without points the correction, in both directions, and  *)
(* the affine stage, for any rotation and stretch, return a track equal to  *)
(* the one given and raise nothing.                                         *)
C15_EmptyTrackIsReturned ==
    (Called("fix_lat_lon_scaling") \/ Called("gpx_transform_and_rotate")) =>
        (Given = <<>> => Returned = <<>> /\ last.raised = "none")

\* the affine stage, turning and stretching, has run as the second call on
\* a track without points
C15_Witness ==
    /\ Called("gpx_transform_and_rotate")
    /\ Given = <<>>
    /\ last.before.working = <<>>
    /\ last.arg.rotation # 0
    /\ last.arg.hor_scale # One
    /\ edits = 2

\* the track as the affine stage has it between its two loops
AfterStretch == stretch_longitudes(last.arg, Given, MeanLon(Given))

(* C16: the affine stage keeps the arithmetic-mean centroid of a non-empty  *)
(* track, for every rotation and stretch: the centroid is that of the input *)
(* after the stretch loop and again after the rotation loop.                *)
C16_AffineStageKeepsCentroid ==
    (Called("gpx_transform_and_rotate") /\ Given # <<>>) =>
        /\ SameCentre(AfterStretch, Given)
        /\ SameCentre(Returned, Given)

\* a track of several points has been stretched and turned by 30 degrees
C16_Witness ==
    /\ Called("gpx_transform_and_rotate")
    /\ Len(Given) >= 3
    /\ last.arg.rotation = 30
    /\ last.arg.hor_scale = RInt(2)
    /\ AfterStretch # Given
    /\ Returned # AfterStretch

\* the affine stage has just turned a track by +90 degrees without stretching it
QuarterTurned ==
    /\ Called("gpx_transform_and_rotate")
    /\ Given # <<>>
    /\ last.arg.rotation = 90
    /\ last.arg.hor_scale = One

(* C17: a positive rotation is clockwise on a north-up map: with stretch 1, *)
(* rotation +90 takes a point lying due east of the centroid by d to the    *)
(* point due south of the centroid by d, so a horizontal track of two       *)
(* points becomes a vertical one, both longitudes the centroid longitude    *)
(* and the latitudes symmetric about the centroid latitude.                 *)
C17_PositiveRotationIsClockwise ==
    QuarterTurned =>
        /\ \A i \in DOMAIN Given :
              (Given[i].lat = MeanLat(Given) /\ RLt(MeanLon(Given), Given[i].lon)) =>
                  /\ Returned[i].lon = MeanLon(Given)
                  /\ Returned[i].lat =
                        RSub(MeanLat(Given), RSub(Given[i].lon, MeanLon(Given)))
        /\ (Len(Given) = 2 /\ Given[1].lat = Given[2].lat) =>
              /\ Returned[1].lon = MeanLon(Given)
              /\ Returned[2].lon = MeanLon(Given)
              /\ RSub(Returned[1].lat, MeanLat(Given)) =
                    RSub(MeanLat(Given), Returned[2].lat)

\* a west-to-east track of two points has become a north-to-south one
C17_Witness ==
    /\ QuarterTurned
    /\ Len(Given) = 2
    /\ Given[1].lat = Given[2].lat
    /\ RLt(Given[1].lon, Given[2].lon)
    /\ RLt(Returned[2].lat, Returned[1].lat)

\* the offset <<dlat, dlon>> of point i of gpx from the centroid of centre
Offset(gpx, i, centre) ==
    <<RSub(gpx[i].lat, MeanLat(centre)), RSub(gpx[i].lon, MeanLon(centre))>>

\* where the claim's formula puts the offset <<dlat, dlon>>, for rotation r and stretch s
StretchedThenTurned(off, r, s) ==
    <<RAdd(RMul(RMul(s, off[2]), SinInt(-r)), RMul(off[1], CosInt(-r))),
      RSub(RMul(RMul(s, off[2]), CosInt(-r)), RMul(off[1], SinInt(-r)))>>

\* the other order: the offset turned first, its longitude part stretched afterwards
TurnedThenStretched(off, r, s) ==
    <<RAdd(RMul(off[2], SinInt(-r)), RMul(off[1], CosInt(-r))),
      RMul(s, RSub(RMul(off[2], CosInt(-r)), RMul(off[1], SinInt(-r))))>>

(* C18: the affine stage stretches before it turns, both about the centroid *)
(* of its input: for rotation r and stretch s a point at offset (dlat,      *)
(* dlon) ends at offset (s*dlon*sin t + dlat*cos t, s*dlon*cos t -          *)
(* dlat*sin t) with t = -r, and for s # 1 and r no multiple of 180 that is  *)
(* not where turning first and stretching afterwards puts a point off the   *)
(* centroid.                                                                *)
C18_StretchBeforeRotation ==
    (Called("gpx_transform_and_rotate") /\ Given # <<>>) =>
        \A i \in DOMAIN Given :
            LET off == Offset(Given, i, Given)
                r == last.arg.rotation
                s == last.arg.hor_scale
            IN  /\ Offset(Returned, i, Given) = StretchedThenTurned(off, r, s)
                /\ (s # One /\ r % 180 # 0 /\ off # <<Zero, Zero>>) =>
                      Offset(Returned, i, Given) # TurnedThenStretched(off, r, s)

\* a track with a point off both axes through its centroid has been
\* stretched by 2 and turned by 30 degrees
C18_Witness ==
    /\ Called("gpx_transform_and_rotate")
    /\ last.arg.rotation = 30
    /\ last.arg.hor_scale = RInt(2)
    /\ \E i \in DOMAIN Given :
          /\ Offset(Given, i, Given)[1] # Zero
          /\ Offset(Given, i, Given)[2] # Zero
          /\ Offset(Returned, i, Given) #
                TurnedThenStretched(Offset(Given, i, Given), 30, RInt(2))

-----------------------------------------------------------------------------
(* Properties of the drag on the map (Spec).                                *)

\* a point list read from the polyline has been handled to the end
DragHandled ==
    /\ last.op = "translate_gpx_with_marker"
    /\ last.arg.kind = "list"
    /\ last.raised = "none"

\* the point list as a track of one segment
ListTrack(coords) == [i \in DOMAIN coords |-> Pt(coords[i].lat, coords[i].lng, <<1, 1>>)]

SameCoordinates(a, b) ==
    /\ DOMAIN a = DOMAIN b
    /\ \A i \in DOMAIN a : a[i].lat = b[i].lat /\ a[i].lon = b[i].lon

(* C19, as stated: when a point list read from the polyline is handled,     *)
(* the coordinates of working become that list, point for point, and final  *)
(* is recomputed from the new working.                                      *)
C19_DragReplacesWorking ==
    DragHandled =>
        /\ SameCoordinates(gpx_data_2_scaled_translated, ListTrack(last.arg.coords))
        /\ gpx_data_3_final = FinalOf(gpx_data_2_scaled_translated, rotation, hor_scale)

(* C19, as the code has it: when a point list with one entry for each point *)
(* of a non-empty working is handled, working is shifted as a whole by the  *)
(* step from its centroid to the centroid of the list, so it keeps its      *)
(* shape, and final is recomputed from the new working.                     *)
C19_DragTranslatesWorking ==
    (DragHandled /\ Len(last.arg.coords) = Len(last.before.working)) =>
        LET was == last.before.working
            list == ListTrack(last.arg.coords)
        IN  /\ gpx_data_2_scaled_translated =
                  translate_gpx_path(was, RSub(MeanLat(list), MeanLat(was)),
                                          RSub(MeanLon(list), MeanLon(was)))
            /\ OffsetsKept(was, gpx_data_2_scaled_translated)
            /\ gpx_data_3_final = FinalOf(gpx_data_2_scaled_translated, rotation, hor_scale)

\* a drag has moved a track whose final was not its working: working has
\* moved but is not the list that was read
C19_Witness ==
    /\ DragHandled
    /\ Len(last.before.working) >= 2
    /\ ~SameCoordinates(last.before.final, last.before.working)
    /\ gpx_data_2_scaled_translated # last.before.working
    /\ ~SameCoordinates(gpx_data_2_scaled_translated, ListTrack(last.arg.coords))

\* a poll result that is no parseable point list: no JSON, null, or a list
\* with an entry that lacks lat or lng
Malformed(js_result) ==
    \/ js_result.kind # "list"
    \/ \E i \in DOMAIN js_result.coords :
          ~({"lat", "lng"} \subseteq DOMAIN js_result.coords[i])

(* C20: a malformed drag result is discarded: with a track on the map, for  *)
(* every poll result that is no parseable point list,                       *)
(* translate_gpx_with_marker leaves working and final as they were and lets *)
(* no exception escape.                                                     *)
C20_MalformedDragIsDiscarded ==
    (/\ last.op = "translate_gpx_with_marker"
     /\ Malformed(last.arg)
     /\ IsTrack(last.before.working)
     /\ last.before.working # <<>>) =>
        /\ gpx_data_2_scaled_translated = last.before.working
        /\ gpx_data_3_final = last.before.final
        /\ last.raised = "none"

-----------------------------------------------------------------------------
(* Properties of loading and of the degenerate cases (Spec, SpecSvg).       *)

\* the load that ran last named a file that does not exist
MissingSource ==
    \/ last.op = "load_svg" /\ last.arg # "" /\ load_svg_raises(last.arg) = "FileNotFoundError"
    \/ last.op = "load_gpx" /\ last.arg # "" /\ load_gpx_raises(last.arg) = "FileNotFoundError"

\* the three snapshots, the rotation and the stretch are what the last handler found
StateAsBefore ==
    /\ gpx_data_1_original = last.before.original
    /\ gpx_data_2_scaled_translated = last.before.working
    /\ gpx_data_3_final = last.before.final
    /\ rotation = last.before.rotation
    /\ hor_scale = last.before.hor_scale

DegenerateScaled ==
    /\ job.pc \in {"raised", "center_gpx_at", "done"}
    /\ job.sampled # NoGpx
    /\ \A i, j \in DOMAIN job.sampled :
          job.sampled[i].lat = job.sampled[j].lat /\ job.sampled[i].lon = job.sampled[j].lon

(* C22: degenerate input to the placement scale is a no-op: when the        *)
(* sampled points are none or all coincide, scale_gpx raises nothing and    *)
(* returns the points it was given.                                         *)
C22_DegenerateScaleIsNoOp ==
    DegenerateScaled =>
        /\ job.raised = "none"
        /\ SameCoordinates(job.scaled, job.sampled)

\* a track file has just been loaded and the transform is the identity
GpxJustLoaded ==
    /\ last.op = "load_gpx"
    /\ status_label = <<"Loaded GPX", last.arg>>
    /\ rotation = 0
    /\ hor_scale = One

(* C23: a track file round-trips through load and save: after load_gpx of   *)
(* a file G, with rotation 0 and stretch 100%, final (the snapshot save_gpx *)
(* writes) has the points of G in the same order, in the same tracks and    *)
(* segments, with the same latitudes and longitudes.                        *)
C23_LoadedTrackIsSavedAsRead ==
    GpxJustLoaded => gpx_data_3_final = GpxFiles[last.arg]

\* a file of two segments at latitude 60 has been loaded: working is the
\* de-corrected track, final is the file again
C23_Witness ==
    /\ GpxJustLoaded
    /\ Len(gpx_data_3_final) >= 3
    /\ \E i, j \in DOMAIN gpx_data_3_final : gpx_data_3_final[i].seg # gpx_data_3_final[j].seg
    /\ gpx_data_2_scaled_translated # gpx_data_3_final
    /\ gpx_data_3_final = GpxFiles[last.arg]

\* the factor the resize that ran last asked scale_gpx_path for
RequestedFactor ==
    RDiv(RequestedLengthKm, calculate_gpx_length_km(last.before.working))

\* the centroid of gpx has a coordinate that is exactly 0.0
ZeroInCentroid(gpx) == MeanLat(gpx) = Zero \/ MeanLon(gpx) = Zero

(* C24: the centroid guard of the resize treats a coordinate of exactly 0.0 *)
(* as missing: scale_gpx_path returns the track it was given when the mean  *)
(* latitude or the mean longitude is 0.0 (or there is no centroid), and for *)
(* every other centroid a track of positive length has every offset from    *)
(* the centroid multiplied by the requested factor, which changes it unless *)
(* the factor is 1.                                                         *)
C24_ZeroCentroidIsTakenAsMissing ==
    (ResizeRequested /\ last.raised = "none") =>
        LET was == last.before.working
            now == gpx_data_2_scaled_translated
        IN  /\ scale_gpx_path(<<>>, RequestedFactor) = <<>>
            /\ ZeroInCentroid(was) => now = was
            /\ ~ZeroInCentroid(was) =>
                  /\ now = scale_gpx_around_point(was, MeanLat(was), MeanLon(was),
                                                  RequestedFactor)
                  /\ RequestedFactor # One => now # was

\* a track on the equator was to be resized by a factor other than 1 and is as it was
C24_Witness ==
    /\ ResizeRequested
    /\ last.raised = "none"
    /\ MeanLat(last.before.working) = Zero
    /\ RequestedFactor # One
    /\ gpx_data_2_scaled_translated = last.before.working

\* a resize to a positive length, a move to a map centre or a drag with a point
\* list has been handled while working was a track without points
EditOfEmptyTrack ==
    /\ last.before.working = <<>>
    /\ \/ /\ last.op \in ResizeOps
          /\ last.op = "update_path_length_from_input" => last.arg.kind = "number"
          /\ RLt(Zero, RequestedLengthKm)
       \/ last.op = "move_path_to_center_js_cb" /\ last.arg # None
       \/ last.op = "translate_gpx_with_marker" /\ last.arg.kind = "list"

(* C25: every caller of the centroid utility checks for the empty result:   *)
(* with a working track without points, resize-to-length, move-to-centre    *)
(* and marker-drag handling complete without raising and leave working      *)
(* unchanged.                                                               *)
C25_EmptyCentroidIsChecked ==
    EditOfEmptyTrack =>
        /\ last.raised = "none"
        /\ gpx_data_2_scaled_translated = last.before.working

-----------------------------------------------------------------------------
(* Properties of the rotation, the stretch and the point lists (Spec).      *)

(* C26: in every reachable state the rotation the pipeline uses lies in     *)
(* [-180, 180] degrees and the stretch factor in [0.25, 4.0], whether the   *)
(* slider or the text input set it last.                                    *)
C26_TransformWithinSliderRanges ==
    /\ rotation \in -180..180
    /\ RLe(R(25, 100), hor_scale)
    /\ RLe(hor_scale, R(400, 100))


\* the three tracks have as many points, point i lying in the same segment
SamePointList(a, b) ==
    /\ DOMAIN a = DOMAIN b
    /\ \A i \in DOMAIN a : a[i].seg = b[i].seg

(* C27: once a track is loaded, original, working and final hold the same   *)
(* number of points in the same order; no resize, move, typed or slid       *)
(* rotation or stretch, and no handled drag result, whether its list has    *)
(* fewer or more entries than the track, adds or drops a point or moves     *)
(* one to another segment.                                                  *)
C27_PointListsStayAligned ==
    IsTrack(gpx_data_1_original) =>
        /\ IsTrack(gpx_data_2_scaled_translated)
        /\ IsTrack(gpx_data_3_final)
        /\ SamePointList(gpx_data_1_original, gpx_data_2_scaled_translated)
        /\ SamePointList(gpx_data_1_original, gpx_data_3_final)

\* a drag result with fewer or more entries than the track has just been
\* handled and has moved a working track of two segments
C27_Witness ==
    /\ DragHandled
    /\ Len(last.arg.coords) # Len(last.before.working)
    /\ Len(gpx_data_1_original) >= 2
    /\ \E i, j \in DOMAIN gpx_data_1_original :
          gpx_data_1_original[i].seg # gpx_data_1_original[j].seg
    /\ gpx_data_2_scaled_translated # last.before.working
    /\ SamePointList(gpx_data_1_original, gpx_data_3_final)


\* the last handler was a load that went through: it has put the file's name
\* into the status line
JustLoaded ==
    /\ last.op \in LoadOps
    /\ last.arg # ""
    /\ status_label \in {<<"Loaded SVG", last.arg>>, <<"Loaded GPX", last.arg>>}

(* C29: after every successful load_svg or load_gpx, whatever rotation and  *)
(* stretch were set before, typed values outside the slider ranges          *)
(* included, the rotation is 0, the stretch factor is 1, working is a copy  *)
(* of the new original and final is the new track under no transform but    *)
(* the longitude correction.                                                *)
C29_LoadResetsTransform ==
    JustLoaded =>
        /\ rotation = 0
        /\ hor_scale = One
        /\ rotation_slider = 0
        /\ stretch_slider = 100
        /\ IsTrack(gpx_data_1_original)
        /\ gpx_data_2_scaled_translated = gpx_data_1_original
        /\ gpx_data_3_final = FinalOf(gpx_data_1_original, 0, One)

\* a track of several points has been loaded over another one that had a
\* typed rotation beyond the slider's range, or a typed stretch beyond it
C29_Witness ==
    /\ JustLoaded
    /\ IsTrack(last.before.original)
    /\ \/ last.before.rotation \notin -180..180
       \/ RLt(R(400, 100), last.before.hor_scale)
    /\ Len(gpx_data_1_original) >= 2
    /\ gpx_data_1_original # last.before.original
    /\ gpx_data_3_final # last.before.final


-----------------------------------------------------------------------------
(* Properties of the pane splitter (SpecPane).                             *)

Toggled(mode) == last.op = "toggle_fullscreen" /\ last.arg.mode = mode

Maximized == {i \in DOMAIN splitter.panes : splitter.panes[i].checked}

\* the sizes of the panes add up to the splitter's extent
FillsSplitter ==
    RInt(splitter.extent) =
        LET RECURSIVE Total(_)
            Total(n) == IF n = 0 THEN Zero ELSE RAdd(splitter.sizes[n], Total(n - 1))
        IN  Total(Len(splitter.sizes))

(* C30, as stated: at most one pane is maximized; a maximize request from   *)
(* pane p leaves p checked with size max_size and every other pane          *)
(* unchecked with size min_size, and a normal request leaves every pane     *)
(* unchecked with size min_size.                                            *)
C30_PanesTakeRequestedSizes ==
    /\ Cardinality(Maximized) <= 1
    /\ Toggled("maximize") =>
          \A i \in DOMAIN splitter.panes :
             IF i = last.arg.sender
             THEN splitter.panes[i].checked /\ splitter.sizes[i] = RInt(splitter.max_size)
             ELSE ~splitter.panes[i].checked /\ splitter.sizes[i] = RInt(splitter.min_size)
    /\ Toggled("normal") =>
          \A i \in DOMAIN splitter.panes :
             ~splitter.panes[i].checked /\ splitter.sizes[i] = RInt(splitter.min_size)

(* C30, as the code has it: at most one pane is maximized at any time.  A   *)
(* maximize request from pane p leaves p checked and every other pane       *)
(* unchecked, the panes sharing the splitter's extent in the proportion     *)
(* max_size for p to min_size for each of the others; a normal request      *)
(* leaves every pane unchecked, the panes sharing the extent equally.  The  *)
(* sizes are max_size and min_size themselves only in a splitter whose      *)
(* extent is their sum.                                                     *)
C30_PanesShareSplitterAsRequested ==
    /\ Cardinality(Maximized) <= 1
    /\ Toggled("maximize") =>
          /\ Maximized = {last.arg.sender}
          /\ FillsSplitter
          /\ \A i \in DOMAIN splitter.panes \ {last.arg.sender} :
                RMul(splitter.sizes[i], RInt(splitter.max_size)) =
                   RMul(splitter.sizes[last.arg.sender], RInt(splitter.min_size))
    /\ Toggled("normal") =>
          /\ Maximized = {}
          /\ FillsSplitter
          /\ \A i \in DOMAIN splitter.panes : splitter.sizes[i] = splitter.sizes[1]
    /\ \A i \in DOMAIN splitter.panes :
          splitter.panes[i].icon = IF splitter.panes[i].checked THEN "collapse" ELSE "expand"

\* one of three panes has been maximized while another one was, after the
\* user had moved a handle, in a splitter that is not max_size + 2 min_size high
C30_Witness ==
    /\ Toggled("maximize")
    /\ Len(splitter.panes) = 3
    /\ \E i \in DOMAIN splitter.panes :
          i # last.arg.sender /\ last.before.panes[i].checked
    /\ last.before.sizes[last.arg.sender] # last.before.sizes[1]
    /\ splitter.sizes[last.arg.sender] # RInt(splitter.max_size)


-----------------------------------------------------------------------------
(* Properties of the marker drag under polling (SpecDrag).                 *)

\* nothing is in flight between the window and the page, and no drag awaits a poll
Quiet == page.scripts = <<>> /\ page.results = <<>> /\ ~page.markerDragEnded

RECURSIVE DraggedBy(_)
DraggedBy(n) ==
    IF n = 0 THEN LatLng(Zero, Zero)
    ELSE LatLng(RAdd(drags[n].lat, DraggedBy(n - 1).lat),
                RAdd(drags[n].lng, DraggedBy(n - 1).lng))

\* working is original moved by the (lat, lng) offset
MovedBy(offset) ==
    /\ DOMAIN gpx_data_2_scaled_translated = DOMAIN gpx_data_1_original
    /\ \A i \in DOMAIN gpx_data_1_original :
          /\ gpx_data_2_scaled_translated[i].lat =
                RAdd(gpx_data_1_original[i].lat, offset.lat)
          /\ gpx_data_2_scaled_translated[i].lon =
                RAdd(gpx_data_1_original[i].lon, offset.lng)

(* C28: no completed marker drag is lost or applied twice: whatever the     *)
(* interleaving of the polls, the page's evaluation of the flag read, the   *)
(* polyline read and the flag reset, their callbacks and the redraws of     *)
(* other handlers, once nothing is in flight and no drag awaits a poll,     *)
(* working has been translated by the offset of every completed drag, once. *)
C28_EveryDragTranslatesOnce ==
    Quiet => MovedBy(DraggedBy(Len(drags)))

====
